---------------------------- MODULE Spec2Model ----------------------------
(***************************************************************************)
(* Verification model of lyrik-analyzer (German text / poetry analysis).   *)
(*                                                                         *)
(* Strings are sequences of characters.  An ASCII character is the         *)
(* one-character string itself; a non-ASCII character is written by its    *)
(* code point ("U+00C3" is A-tilde), so that the literal mis-encoding      *)
(* tables of the source can be written down code point by code point.      *)
(*                                                                         *)
(* The repository holds two generations of utils/textPreprocessing: the    *)
(* file src/utils/textPreprocessing.js and the UTF-8 normalising one in    *)
(* unnamed/part_000 (lines 262-796).  Where both define a function, the    *)
(* second one carries the suffix UTF8 here.                                *)
(***************************************************************************)
EXTENDS Integers, Sequences, FiniteSets, TLC

VARIABLES
    \* --- a single function call: the pure text functions ---
    input,           \* argument handed to the function under analysis
    fn,              \* name of the last function applied ("none" before a call)
    output,          \* value returned by that function
    \* --- the TextAnalyzer singleton and the calls of analyze in flight ---
    isAnalyzing,     \* TextAnalyzer.isAnalyzing
    currentAnalysis, \* TextAnalyzer.currentAnalysis
    analysisCache,   \* TextAnalyzer.analysisCache, in Map insertion order
    models,          \* keys of ModelLoader.models that hold a pipeline
    pc,              \* per call of analyze: the await it is suspended at
    callText,        \* per call: the text argument
    callModules,     \* per call: options.enabledModules
    progress,        \* per call: the values handed to progressCallback
    modelCalls,      \* per call: the collaborators invoked, in order
    thrown,          \* per call: the error analyze threw, if any
    callNo,          \* per call: the how manieth call of analyze it is
    loaderOps,       \* number of loads and unloads the model loader has done
    started,         \* number of analyze calls made so far
    \* --- operations modelled call by call ---
    embedRun,        \* the generateWordEmbeddings run under way
    loadingPromises, \* ModelLoader.loadingPromises: pairs of key and pipeline load
    storedModels,    \* ModelLoader.models: pairs of key and model
    pipelines,       \* the pipeline loads started, in order
    loaderLog        \* the calls made to the model loader, in order

pureVars == <<input, fn, output>>

analyzerVars == <<isAnalyzing, currentAnalysis, analysisCache, models, pc,
                  callText, callModules, progress, modelCalls, thrown, callNo,
                  loaderOps, started>>

orchVars == <<isAnalyzing, currentAnalysis, analysisCache, models, pc,
              callText, callModules, progress, modelCalls, thrown, callNo,
              loaderOps, started, embedRun, loadingPromises, storedModels,
              pipelines, loaderLog>>

vars == <<input, fn, output, isAnalyzing, currentAnalysis, analysisCache,
          models, pc, callText, callModules, progress, modelCalls, thrown,
          callNo, loaderOps, started, embedRun, loadingPromises,
          storedModels, pipelines, loaderLog>>

NoValue == "NoValue"

loaderVars == <<loadingPromises, storedModels, pipelines, loaderLog>>

\* the analyzer's variables other than the set of loaded keys
flightVars == <<isAnalyzing, currentAnalysis, analysisCache, pc, callText,
                callModules, progress, modelCalls, thrown, callNo, loaderOps,
                started>>

sideVars == <<embedRun, loadingPromises, storedModels, pipelines, loaderLog>>

\* generateWordEmbeddings not called
EmbedIdle ==
    [phase |-> "idle", wordTokens |-> <<>>, cursor |-> 0, status |-> <<>>,
     embeddings |-> <<>>]

\* no such operation under way
SideIdle ==
    /\ embedRun = EmbedIdle
    /\ loadingPromises = {}
    /\ storedModels = {}
    /\ pipelines = <<>>
    /\ loaderLog = <<>>

\* the calls of analyze that may be in flight together (compareTexts starts
\* two)
Calls == {1, 2}

\* the analyzer as constructed, no model loaded, no call made
OrchIdle ==
    /\ isAnalyzing = FALSE
    /\ currentAnalysis = NoValue
    /\ analysisCache = <<>>
    /\ models = {}
    /\ pc = [c \in Calls |-> "idle"]
    /\ callText = [c \in Calls |-> NoValue]
    /\ callModules = [c \in Calls |-> NoValue]
    /\ progress = [c \in Calls |-> <<>>]
    /\ modelCalls = [c \in Calls |-> <<>>]
    /\ thrown = [c \in Calls |-> NoValue]
    /\ callNo = [c \in Calls |-> 0]
    /\ loaderOps = 0
    /\ started = 0
    /\ SideIdle

-----------------------------------------------------------------------------
(* String helpers (JavaScript built-ins used by the source)                *)

\* s.slice(-n): the last n characters, the whole string if it is shorter
SliceLast(s, n) == IF Len(s) <= n THEN s ELSE SubSeq(s, Len(s) - n + 1, Len(s))

\* s.startsWith(p, i0) for 1-based position i
StartsWithAt(s, p, i) ==
    /\ i + Len(p) - 1 <= Len(s)
    /\ \A k \in 1..Len(p) : s[i + k - 1] = p[k]

\* String.prototype.includes
Includes(s, p) == \E i \in 1..(Len(s) + 1) : StartsWithAt(s, p, i)

RECURSIVE ReplaceAllFrom(_, _, _, _)
ReplaceAllFrom(s, wrong, correct, i) ==
    IF i > Len(s) THEN <<>>
    ELSE IF StartsWithAt(s, wrong, i)
         THEN correct \o ReplaceAllFrom(s, wrong, correct, i + Len(wrong))
         ELSE <<s[i]>> \o ReplaceAllFrom(s, wrong, correct, i + 1)

\* s.split(wrong).join(correct): every non-overlapping occurrence, scanned
\* left to right, is replaced
SplitJoin(s, wrong, correct) == ReplaceAllFrom(s, wrong, correct, 1)

-----------------------------------------------------------------------------
(* Text normaliser (unnamed/part_000)                                      *)

\* Object.entries(encodingFixes): insertion order of the keys; the key
\* a-circumflex, euro, '"' is written twice in the literal (lines 296 and
\* 297), so it keeps its first position and its last value (em dash).
encodingFixes == <<
    << <<"U+00C3", "U+00BC">>, <<"U+00FC">> >>,
    << <<"U+00C3", "U+00A4">>, <<"U+00E4">> >>,
    << <<"U+00C3", "U+00B6">>, <<"U+00F6">> >>,
    << <<"U+00C3", "U+0178">>, <<"U+00DF">> >>,
    << <<"U+00C3", "U+201E">>, <<"U+00C4">> >>,
    << <<"U+00C3", "U+2013">>, <<"U+00D6">> >>,
    << <<"U+00C3", "U+0153">>, <<"U+00DC">> >>,
    << <<"U+00C3", "U+00A9">>, <<"U+00E9">> >>,
    << <<"U+00C3", "U+00A8">>, <<"U+00E8">> >>,
    << <<"U+00C3", " ">>,      <<"U+00E0">> >>,
    << <<"U+00C3", "U+00A2">>, <<"U+00E2">> >>,
    << <<"U+00C3", "U+00AB">>, <<"U+00EB">> >>,
    << <<"U+00C3", "U+00AE">>, <<"U+00EE">> >>,
    << <<"U+00C3", "U+00B4">>, <<"U+00F4">> >>,
    << <<"U+00C3", "U+00BB">>, <<"U+00FB">> >>,
    << <<"U+00C3", "U+00A7">>, <<"U+00E7">> >>,
    << <<"U+00E2", "U+20AC", "U+0153">>, <<"\"">> >>,
    << <<"U+00E2", "U+20AC">>,           <<"\"">> >>,
    << <<"U+00E2", "U+20AC", "U+2122">>, <<"'">> >>,
    << <<"U+00E2", "U+20AC", "U+02DC">>, <<"'">> >>,
    << <<"U+00E2", "U+20AC", "\"">>,     <<"U+2014">> >>,
    << <<"U+00E2", "U+20AC", "U+00A6">>, <<"U+2026">> >>,
    << <<"U+00C2", "U+00BB">>, <<"U+00BB">> >>,
    << <<"U+00C2", "U+00AB">>, <<"U+00AB">> >>,
    << <<"U+00C2", "U+00B0">>, <<"U+00B0">> >> >>

\* Canonical compositions (base, combining mark) -> precomposed character,
\* for the characters of the model's alphabets
NFCCompositions ==
    { << <<"A", "U+0303">>, "U+00C3" >>,
      << <<"u", "U+0308">>, "U+00FC" >> }

\* Characters whose NFC form is longer than one character (composition
\* exclusions): DEVANAGARI LETTER QA -> KA + NUKTA
NFCExpansions == { << "U+0958", <<"U+0915", "U+093C">> >> }

RECURSIVE NFCFrom(_, _)
NFCFrom(s, i) ==
    IF i > Len(s) THEN <<>>
    ELSE IF \E e \in NFCExpansions : e[1] = s[i]
         THEN (CHOOSE e \in NFCExpansions : e[1] = s[i])[2] \o NFCFrom(s, i + 1)
    ELSE IF i < Len(s) /\ \E c \in NFCCompositions : c[1] = <<s[i], s[i + 1]>>
         THEN <<(CHOOSE c \in NFCCompositions : c[1] = <<s[i], s[i + 1]>>)[2]>>
              \o NFCFrom(s, i + 2)
    ELSE <<s[i]>> \o NFCFrom(s, i + 1)

\* String.prototype.normalize('NFC')
NFC(s) == NFCFrom(s, 1)

RECURSIVE ApplyFixes(_, _)
ApplyFixes(s, k) ==
    IF k > Len(encodingFixes) THEN s
    ELSE ApplyFixes(SplitJoin(s, encodingFixes[k][1], encodingFixes[k][2]), k + 1)

\* `!text || typeof text !== 'string'` : the empty string is returned as is
normalizeUTF8(text) ==
    IF text = <<>> THEN text
    ELSE NFC(ApplyFixes(text, 1))

-----------------------------------------------------------------------------
(* Specification SpecNormalize: normalizeUTF8 applied once, then again     *)

NormMaxLen == 3

NormAlphabet ==
    {"x", "A", "U+0303", "U+00C3", "U+00C2", "U+00BB", "U+00BC"}

NormInputs == UNION { [1..n -> NormAlphabet] : n \in 0..NormMaxLen }

InitNormalize ==
    /\ input \in NormInputs
    /\ fn = "none"
    /\ output = NoValue
    /\ OrchIdle

CallNormalizeUTF8 ==
    /\ fn = "none"
    /\ output' = normalizeUTF8(input)
    /\ fn' = "normalizeUTF8"
    /\ UNCHANGED input
    /\ UNCHANGED orchVars

\* normalizeUTF8 applied to its own result
CallNormalizeUTF8Again ==
    /\ fn = "normalizeUTF8"
    /\ output' = normalizeUTF8(output)
    /\ fn' = "normalizeUTF8(normalizeUTF8)"
    /\ UNCHANGED input
    /\ UNCHANGED orchVars

NextNormalize == CallNormalizeUTF8 \/ CallNormalizeUTF8Again

SpecNormalize == InitNormalize /\ [][NextNormalize]_vars

\* C1: normalisation is idempotent - a second pass of normalizeUTF8 over
\* its own result changes nothing.
C1_NormalizeIdempotent ==
    [][fn = "normalizeUTF8" => output' = output]_vars

-----------------------------------------------------------------------------
(* Character classes of the regular expressions                            *)

LowerAscii ==
    {"a","b","c","d","e","f","g","h","i","j","k","l","m",
     "n","o","p","q","r","s","t","u","v","w","x","y","z"}

UpperAscii ==
    {"A","B","C","D","E","F","G","H","I","J","K","L","M",
     "N","O","P","Q","R","S","T","U","V","W","X","Y","Z"}

\* the lower-case letters a-umlaut, o-umlaut, u-umlaut, sharp s
LowerUmlauts == {"U+00E4", "U+00F6", "U+00FC", "U+00DF"}

\* \p{L}: the letters among the characters used in this module
Letters ==
    LowerAscii \cup UpperAscii \cup LowerUmlauts \cup
    {"U+00C3", "U+00C2", "U+00E2", "U+00C4", "U+00D6", "U+00DC",
     "U+00E9", "U+00E8", "U+00E0", "U+00EB", "U+00EE", "U+00F4",
     "U+00FB", "U+00E7", "U+0178", "U+0153", "U+0915", "U+0958"}

\* \p{M}: combining marks
Marks == {"U+0303", "U+0308", "U+093C"}

\* \d
Digits == {"0","1","2","3","4","5","6","7","8","9"}

\* \s (a line break is written "\n", a tab "\t")
Whitespace == {" ", "\t", "\n", "\r", "U+00A0"}

\* [.,!?;:<em dash><en dash>\-"<>>><<<>()<ellipsis>]
TokenPunctuation ==
    {".", ",", "!", "?", ";", ":", "U+2014", "U+2013", "-", "\"",
     "U+00BB", "U+00AB", "(", ")", "U+2026"}

\* [\p{L}\p{M}]
IsWordChar(c) == c \in Letters \cup Marks

\* [-']
IsJoiner(c) == c \in {"-", "'"}

\* String.prototype.trim
RECURSIVE TrimLeft(_)
TrimLeft(s) ==
    IF s = <<>> THEN s
    ELSE IF Head(s) \in Whitespace THEN TrimLeft(Tail(s)) ELSE s

RECURSIVE TrimRight(_)
TrimRight(s) ==
    IF s = <<>> THEN s
    ELSE IF s[Len(s)] \in Whitespace THEN TrimRight(SubSeq(s, 1, Len(s) - 1))
    ELSE s

Trim(s) == TrimRight(TrimLeft(s))

-----------------------------------------------------------------------------
(* Tokenizer                                                               *)

\* last position of the maximal run [\p{L}\p{M}]+ that starts at i
RECURSIVE WordRunEnd(_, _)
WordRunEnd(s, i) ==
    IF i < Len(s) /\ IsWordChar(s[i + 1]) THEN WordRunEnd(s, i + 1) ELSE i

\* last position of [\p{L}\p{M}]+(?:[-'][\p{L}\p{M}]+)* matched at i (greedy)
RECURSIVE WordMatchEnd(_, _)
WordMatchEnd(s, i) ==
    LET e == WordRunEnd(s, i)
    IN  IF e + 2 <= Len(s) /\ IsJoiner(s[e + 1]) /\ IsWordChar(s[e + 2])
        THEN WordMatchEnd(s, e + 2)
        ELSE e

\* the while loop over tokenRegex.exec: i is lastIndex + 1, position the
\* running token counter
RECURSIVE TokenScan(_, _, _)
TokenScan(s, i, position) ==
    IF i > Len(s) THEN <<>>
    ELSE IF IsWordChar(s[i])
         THEN LET e == WordMatchEnd(s, i)
              IN  << [text |-> SubSeq(s, i, e), index |-> i - 1,
                      position |-> position,
                      isPunctuation |-> (e = i /\ s[i] \in TokenPunctuation),
                      length |-> e - i + 1] >>
                  \o TokenScan(s, e + 1, position + 1)
    ELSE IF s[i] \in TokenPunctuation
         THEN << [text |-> <<s[i]>>, index |-> i - 1, position |-> position,
                  isPunctuation |-> TRUE, length |-> 1] >>
              \o TokenScan(s, i + 1, position + 1)
    ELSE TokenScan(s, i + 1, position)

\* utils/textPreprocessing.js: scans the text itself
tokenizeText(text) ==
    IF text = <<>> THEN <<>> ELSE TokenScan(text, 1, 0)

\* unnamed/part_000: scans normalizeUTF8(text)
tokenizeTextUTF8(text) ==
    IF text = <<>> THEN <<>> ELSE TokenScan(normalizeUTF8(text), 1, 0)

-----------------------------------------------------------------------------
(* Specification SpecTokenize: both tokenizers on short strings            *)

TokMaxLen == 4

TokAlphabet == {"a", "-", "'", ".", " ", "1", "U+00C3", "U+00BC"}

TokInputs == UNION { [1..n -> TokAlphabet] : n \in 0..TokMaxLen }

InitTokenize ==
    /\ input \in TokInputs
    /\ fn = "none"
    /\ output = NoValue
    /\ OrchIdle

CallTokenizeText ==
    /\ fn = "none"
    /\ output' = tokenizeText(input)
    /\ fn' = "tokenizeText"
    /\ UNCHANGED input
    /\ UNCHANGED orchVars

CallTokenizeTextUTF8 ==
    /\ fn = "none"
    /\ output' = tokenizeTextUTF8(input)
    /\ fn' = "tokenizeTextUTF8"
    /\ UNCHANGED input
    /\ UNCHANGED orchVars

NextTokenize == CallTokenizeText \/ CallTokenizeTextUTF8

SpecTokenize == InitTokenize /\ [][NextTokenize]_vars

\* the tokens of the current state, once a tokenizer has returned
TokensReturned == fn \in {"tokenizeText", "tokenizeTextUTF8"}

\* C4: the tokens are in scan order with strictly increasing offsets, the
\* i-th token has position i (0-based, dense), and each offset is the index
\* in the original input at which the token's text starts:
\* input.substr(token.index, token.length) = token.text.
C4_TokenOffsetsInOriginal ==
    TokensReturned =>
        \A i \in 1..Len(output) :
            /\ output[i].position = i - 1
            /\ i > 1 => output[i - 1].index < output[i].index
            /\ output[i].index + output[i].length <= Len(input)
            /\ SubSeq(input, output[i].index + 1,
                      output[i].index + output[i].length) = output[i].text

\* the string a tokenizer scans: the input, or its normalised form
ScannedText ==
    IF fn = "tokenizeTextUTF8" THEN normalizeUTF8(input) ELSE input

\* C5: every non-whitespace character of the (normalised) input belongs to
\* exactly one token.
C5_TokenizerCoverage ==
    TokensReturned =>
        \A k \in 1..Len(ScannedText) :
            ScannedText[k] \notin Whitespace =>
                Cardinality({ i \in 1..Len(output) :
                    /\ output[i].index < k
                    /\ k <= output[i].index + output[i].length }) = 1

-----------------------------------------------------------------------------
(* Input validation                                                        *)

\* ANALYSIS_CONFIG.TEXT
MIN_LENGTH == 10
MAX_LENGTH == 10000

\* (trimmed.match(/[\p{L}]/gu) || []).length
letterCount(s) == Cardinality({ k \in 1..Len(s) : s[k] \in Letters })

\* the fewest letters validateText of textPreprocessing.js accepts
MIN_LETTERS == 5

validateText_OffByOne(text) ==
    LET trimmed == Trim(text)
    IN  IF text = <<>>
        THEN [valid |-> FALSE, errorCode |-> "MISSING_TEXT", text |-> NoValue]
        ELSE IF Len(trimmed) <= MIN_LENGTH
        THEN [valid |-> FALSE, errorCode |-> "TEXT_TOO_SHORT", text |-> NoValue]
        ELSE IF Len(trimmed) > MAX_LENGTH
        THEN [valid |-> FALSE, errorCode |-> "TEXT_TOO_LONG", text |-> NoValue]
        ELSE IF letterCount(trimmed) < MIN_LETTERS
        THEN [valid |-> FALSE, errorCode |-> "INSUFFICIENT_LETTERS", text |-> NoValue]
        ELSE [valid |-> TRUE, errorCode |-> NoValue, text |-> trimmed]

\* utils/textPreprocessing.js
validateText(text) ==
    LET trimmed == Trim(text)
    IN  IF text = <<>>
        THEN [valid |-> FALSE, errorCode |-> "MISSING_TEXT", text |-> NoValue]
        ELSE IF Len(trimmed) < MIN_LENGTH
        THEN [valid |-> FALSE, errorCode |-> "TEXT_TOO_SHORT", text |-> NoValue]
        ELSE IF Len(trimmed) > MAX_LENGTH
        THEN [valid |-> FALSE, errorCode |-> "TEXT_TOO_LONG", text |-> NoValue]
        ELSE IF letterCount(trimmed) < MIN_LETTERS
        THEN [valid |-> FALSE, errorCode |-> "INSUFFICIENT_LETTERS", text |-> NoValue]
        ELSE [valid |-> TRUE, errorCode |-> NoValue, text |-> trimmed]

\* unnamed/part_000: normalises first, has no letter check and no error
\* codes (the messages are abbreviated to tags)
validateTextUTF8(text) ==
    LET trimmed == Trim(normalizeUTF8(text))
    IN  IF text = <<>>
        THEN [valid |-> FALSE, errorCode |-> "Kein Text vorhanden", text |-> NoValue]
        ELSE IF Len(trimmed) < MIN_LENGTH
        THEN [valid |-> FALSE, errorCode |-> "Text zu kurz", text |-> NoValue]
        ELSE IF Len(trimmed) > MAX_LENGTH
        THEN [valid |-> FALSE, errorCode |-> "Text zu lang", text |-> NoValue]
        ELSE [valid |-> TRUE, errorCode |-> NoValue, text |-> trimmed]

-----------------------------------------------------------------------------
(* Specification SpecValidate: both validators around the length bound     *)

ValPrefixLen == 2
ValMaxLetters == 10
ValMaxDigits == 6

ValAlphabet == {" ", "U+00C3", "U+0178", "U+0958"}

\* n copies of the character c
Repeat(c, n) == [k \in 1..n |-> c]

\* a short prefix of arbitrary characters, then letters, then digits, then
\* possibly a trailing blank
ValInputs ==
    { p \o Repeat("a", k) \o Repeat("1", m) \o t :
        p \in UNION { [1..n -> ValAlphabet] : n \in 0..ValPrefixLen },
        k \in 0..ValMaxLetters, m \in 0..ValMaxDigits,
        t \in {<<>>, <<" ">>} }

InitValidate ==
    /\ input \in ValInputs
    /\ fn = "none"
    /\ output = NoValue
    /\ OrchIdle

CallValidateText ==
    /\ fn = "none"
    /\ output' = validateText(input)
    /\ fn' = "validateText"
    /\ UNCHANGED input
    /\ UNCHANGED orchVars

CallValidateTextUTF8 ==
    /\ fn = "none"
    /\ output' = validateTextUTF8(input)
    /\ fn' = "validateTextUTF8"
    /\ UNCHANGED input
    /\ UNCHANGED orchVars

NextValidate == CallValidateText \/ CallValidateTextUTF8

SpecValidate == InitValidate /\ [][NextValidate]_vars

Validated == fn \in {"validateText", "validateTextUTF8"}

\* C3 as stated: every text of exactly 9 characters is rejected, every
\* text of exactly 10 valid characters (letters) is accepted.
C3_BoundOnRawLength ==
    Validated =>
        /\ Len(input) = MIN_LENGTH - 1 => ~output.valid
        /\ (Len(input) = MIN_LENGTH /\ \A k \in 1..Len(input) : input[k] \in Letters)
               => output.valid

\* the text whose length validateText compares with the bounds
MeasuredText ==
    IF fn = "validateTextUTF8" THEN Trim(normalizeUTF8(input)) ELSE Trim(input)

\* C3 (amended): the bound is inclusive at 10 on the text validateText
\* measures - the trimmed text, in the normalising variant the normalised
\* and trimmed text: 9 measured characters are rejected as too short, 10
\* measured characters are accepted (textPreprocessing.js: provided at
\* least 5 of them are letters).
C3_BoundOnMeasuredLength ==
    Validated =>
        /\ Len(MeasuredText) = MIN_LENGTH - 1 => ~output.valid
        /\ (/\ Len(MeasuredText) = MIN_LENGTH
            /\ fn = "validateText" => letterCount(MeasuredText) >= MIN_LETTERS)
               => output.valid /\ output.text = MeasuredText

\* a text of exactly 10 measured characters has been accepted, and the raw
\* input was longer (blanks or a mis-encoded pair were removed)
C3_Witness ==
    /\ Validated
    /\ Len(MeasuredText) = MIN_LENGTH
    /\ Len(input) > MIN_LENGTH
    /\ output.valid

-----------------------------------------------------------------------------
(* Sentence segmentation                                                   *)

\* [.!?<ellipsis>]
SentenceTerminators == {".", "!", "?", "U+2026"}

\* text.split('\n')
RECURSIVE SplitLinesFrom(_, _, _)
SplitLinesFrom(s, i, start) ==
    IF i > Len(s) THEN << SubSeq(s, start, Len(s)) >>
    ELSE IF s[i] = "\n"
         THEN << SubSeq(s, start, i - 1) >> \o SplitLinesFrom(s, i + 1, i + 1)
         ELSE SplitLinesFrom(s, i + 1, start)

SplitLines(s) == SplitLinesFrom(s, 1, 1)

\* last position of the maximal run of characters of class cls from i on
RECURSIVE RunEnd(_, _, _)
RunEnd(s, i, cls) ==
    IF i < Len(s) /\ s[i + 1] \in cls THEN RunEnd(s, i + 1, cls) ELSE i

\* /([.!?<ellipsis>]+\s+)/u matches at position q
TerminatorMatchAt(s, q) ==
    /\ s[q] \in SentenceTerminators
    /\ LET e == RunEnd(s, q, SentenceTerminators)
       IN  e < Len(s) /\ s[e + 1] \in Whitespace

\* line.split(/([.!?<ellipsis>]+\s+)/u): the pieces between the matches and
\* the captured matches themselves, in order; p is where the last match
\* ended + 1, q the position tried next
RECURSIVE SplitAtTerminators(_, _, _)
SplitAtTerminators(s, p, q) ==
    IF q > Len(s) THEN << SubSeq(s, p, Len(s)) >>
    ELSE IF TerminatorMatchAt(s, q)
         THEN LET e == RunEnd(s, q, SentenceTerminators)
                  w == RunEnd(s, e + 1, Whitespace)
              IN  << SubSeq(s, p, q - 1), SubSeq(s, q, w) >>
                  \o SplitAtTerminators(s, w + 1, w + 1)
         ELSE SplitAtTerminators(s, p, q + 1)

\* .filter(s => s.trim())
lineSentences(line) ==
    SelectSeq(SplitAtTerminators(line, 1, 1), LAMBDA piece : Trim(piece) # <<>>)

\* /[.!?<ellipsis>]+\s+$/u.test(piece)
EndsWithTerminatorAndSpace(piece) ==
    /\ piece # <<>>
    /\ piece[Len(piece)] \in Whitespace
    /\ LET t == TrimRight(piece)
       IN  t # <<>> /\ t[Len(t)] \in SentenceTerminators

\* /(?:Dr|Prof|etc|z\.B|d\.h|u\.a|usw|bzw|inkl|evtl|ggf)/u
abbreviationList ==
    { <<"D","r">>, <<"P","r","o","f">>, <<"e","t","c">>, <<"z",".","B">>,
      <<"d",".","h">>, <<"u",".","a">>, <<"u","s","w">>, <<"b","z","w">>,
      <<"i","n","k","l">>, <<"e","v","t","l">>, <<"g","g","f">> }

\* abbreviations.test(s): the pattern is not anchored
abbreviations(s) == \E a \in abbreviationList : Includes(s, a)

\* trimmed.split(/\s+/u).length for a trimmed, non-empty string
wordCount(trimmed) ==
    1 + Cardinality({ k \in 2..Len(trimmed) :
                        trimmed[k] \in Whitespace /\ trimmed[k - 1] \notin Whitespace })

\* the inner for loop of sentenceSegmentation over the pieces of one line
\* and the push of the remainder after it
RECURSIVE SegmentLine(_, _, _, _)
SegmentLine(pieces, i, currentSentence, sentences) ==
    IF i > Len(pieces)
    THEN IF Trim(currentSentence) # <<>>
         THEN Append(sentences, [text |-> Trim(currentSentence),
                                 index |-> Len(sentences),
                                 wordCount |-> wordCount(Trim(currentSentence))])
         ELSE sentences
    ELSE LET cur == currentSentence \o pieces[i]
             trimmed == Trim(cur)
         IN  IF /\ EndsWithTerminatorAndSpace(pieces[i]) \/ i = Len(pieces)
                /\ Len(trimmed) > 0
                /\ ~abbreviations(trimmed)
             THEN SegmentLine(pieces, i + 1, <<>>,
                      Append(sentences, [text |-> trimmed,
                                         index |-> Len(sentences),
                                         wordCount |-> wordCount(trimmed)]))
             ELSE SegmentLine(pieces, i + 1, cur, sentences)

RECURSIVE SegmentLines(_, _, _)
SegmentLines(lines, k, sentences) ==
    IF k > Len(lines) THEN sentences
    ELSE IF Trim(lines[k]) = <<>> THEN SegmentLines(lines, k + 1, sentences)
    ELSE SegmentLines(lines, k + 1,
             SegmentLine(lineSentences(lines[k]), 1, <<>>, sentences))

\* utils/textPreprocessing.js
sentenceSegmentation(text) ==
    IF text = <<>> THEN <<>> ELSE SegmentLines(SplitLines(text), 1, <<>>)

\* /[.!?<ellipsis>]/.test(s)
HasTerminator(s) == \E k \in 1..Len(s) : s[k] \in SentenceTerminators

\* unnamed/part_000: the loop tests the accumulated sentence, not the piece
RECURSIVE SegmentLineUTF8(_, _, _, _)
SegmentLineUTF8(pieces, i, currentSentence, sentences) ==
    IF i > Len(pieces)
    THEN IF Trim(currentSentence) # <<>>
         THEN Append(sentences, [text |-> Trim(currentSentence),
                                 index |-> Len(sentences),
                                 length |-> Len(Trim(currentSentence))])
         ELSE sentences
    ELSE LET cur == currentSentence \o pieces[i]
         IN  IF HasTerminator(cur) /\ ~abbreviations(cur)
             THEN SegmentLineUTF8(pieces, i + 1, <<>>,
                      Append(sentences, [text |-> Trim(cur),
                                         index |-> Len(sentences),
                                         length |-> Len(Trim(cur))]))
             ELSE SegmentLineUTF8(pieces, i + 1, cur, sentences)

RECURSIVE SegmentLinesUTF8(_, _, _)
SegmentLinesUTF8(lines, k, sentences) ==
    IF k > Len(lines) THEN sentences
    ELSE IF Trim(lines[k]) = <<>> THEN SegmentLinesUTF8(lines, k + 1, sentences)
    ELSE SegmentLinesUTF8(lines, k + 1,
             SegmentLineUTF8(lineSentences(lines[k]), 1, <<>>, sentences))

sentenceSegmentationUTF8(text) ==
    IF text = <<>> THEN <<>>
    ELSE LET normalized == normalizeUTF8(text)
             sentences == SegmentLinesUTF8(SplitLines(normalized), 1, <<>>)
         IN  IF Len(sentences) > 0 THEN sentences
             ELSE << [text |-> Trim(normalized), index |-> 0,
                      length |-> Len(Trim(normalized))] >>

-----------------------------------------------------------------------------
(* Specification SpecSegment: both segmenters on short lines               *)

SegMaxPieces == 6

\* the building blocks of the inputs: the abbreviation Dr, a word, a
\* terminator, a blank, a line break
SegPieces == { <<"D","r">>, <<"a">>, <<".">>, <<" ">>, <<"\n">> }

RECURSIVE Concat(_)
Concat(ss) == IF ss = <<>> THEN <<>> ELSE Head(ss) \o Concat(Tail(ss))

SegInputs ==
    { Concat(ps) : ps \in UNION { [1..n -> SegPieces] : n \in 0..SegMaxPieces } }

InitSegment ==
    /\ input \in SegInputs
    /\ fn = "none"
    /\ output = NoValue
    /\ OrchIdle

CallSentenceSegmentation ==
    /\ fn = "none"
    /\ output' = sentenceSegmentation(input)
    /\ fn' = "sentenceSegmentation"
    /\ UNCHANGED input
    /\ UNCHANGED orchVars

CallSentenceSegmentationUTF8 ==
    /\ fn = "none"
    /\ output' = sentenceSegmentationUTF8(input)
    /\ fn' = "sentenceSegmentationUTF8"
    /\ UNCHANGED input
    /\ UNCHANGED orchVars

NextSegment == CallSentenceSegmentation \/ CallSentenceSegmentationUTF8

SpecSegment == InitSegment /\ [][NextSegment]_vars

\* the text ends with one of the listed abbreviations
EndsWithAbbreviation(s) ==
    \E a \in abbreviationList :
        Len(a) <= Len(s) /\ SubSeq(s, Len(s) - Len(a) + 1, Len(s)) = a

\* The segmentation C6 describes, for the pieces of one line: a terminator
\* run followed by whitespace ends the sentence exactly when the text
\* immediately before it does not end with an abbreviation; what is left at
\* the end of the line is a sentence of its own.
RECURSIVE SplitByRule(_, _, _, _)
SplitByRule(pieces, i, currentSentence, texts) ==
    IF i > Len(pieces)
    THEN IF Trim(currentSentence) # <<>>
         THEN Append(texts, Trim(currentSentence)) ELSE texts
    ELSE LET cur == currentSentence \o pieces[i]
         IN  IF /\ EndsWithTerminatorAndSpace(pieces[i])
                /\ ~EndsWithAbbreviation(Trim(currentSentence))
             THEN SplitByRule(pieces, i + 1, <<>>, Append(texts, Trim(cur)))
             ELSE SplitByRule(pieces, i + 1, cur, texts)

RECURSIVE SplitLinesByRule(_, _, _)
SplitLinesByRule(lines, k, texts) ==
    IF k > Len(lines) THEN texts
    ELSE IF Trim(lines[k]) = <<>> THEN SplitLinesByRule(lines, k + 1, texts)
    ELSE SplitLinesByRule(lines, k + 1,
             SplitByRule(lineSentences(lines[k]), 1, <<>>, texts))

Segmented == fn \in {"sentenceSegmentation", "sentenceSegmentationUTF8"}

\* C6: within a line a run of terminators followed by whitespace is a
\* sentence boundary exactly when the text immediately before it is not one
\* of the listed abbreviations (stated for utils/textPreprocessing.js; the
\* variant of unnamed/part_000 shares the abbreviation test).
C6_SplitExactlyAtNonAbbreviations ==
    fn = "sentenceSegmentation" =>
        [k \in 1..Len(output) |-> output[k].text]
            = SplitLinesByRule(SplitLines(input), 1, <<>>)

-----------------------------------------------------------------------------
(* Verse detection                                                         *)

\* text.split('\n').map(l => l.trim())
TrimmedLines(text) ==
    LET lines == SplitLines(text) IN [k \in 1..Len(lines) |-> Trim(lines[k])]

\* line.split(/\s+/).filter(w => w.length > 0).length
wordsIn(line) ==
    Cardinality({ k \in 1..Len(line) :
        line[k] \notin Whitespace /\ (k = 1 \/ line[k - 1] \in Whitespace) })

\* utils/textPreprocessing.js: no stanzas, and no verses at all for fewer
\* than two non-empty lines (startsWithCapital and endsWithPunctuation are
\* not modelled)
detectVerses(text) ==
    LET lines == SelectSeq(TrimmedLines(text), LAMBDA l : Len(l) > 0)
    IN  IF Len(lines) < 2 THEN <<>>
        ELSE [k \in 1..Len(lines) |->
                [text |-> lines[k], index |-> k - 1,
                 wordCount |-> wordCount(lines[k]), charCount |-> Len(lines[k])]]

\* the for loop of detectVerses in unnamed/part_000; inStanza is
\* versesInStanza.length
RECURSIVE VerseLoop_NoReset(_, _, _, _, _)
VerseLoop_NoReset(lines, i, stanzaIndex, inStanza, verses) ==
    IF i > Len(lines) THEN verses
    ELSE LET line == Trim(lines[i])
         IN  IF line = <<>>
             THEN IF inStanza > 0
                  THEN VerseLoop_NoReset(lines, i + 1, stanzaIndex + 1, inStanza, verses)
                  ELSE VerseLoop_NoReset(lines, i + 1, stanzaIndex, inStanza, verses)
             ELSE VerseLoop_NoReset(lines, i + 1, stanzaIndex, inStanza + 1,
                      Append(verses, [text |-> line, index |-> Len(verses),
                                      stanza |-> stanzaIndex,
                                      verseInStanza |-> inStanza,
                                      length |-> Len(line),
                                      wordCount |-> wordsIn(line)]))

RECURSIVE VerseLoop(_, _, _, _, _)
VerseLoop(lines, i, stanzaIndex, inStanza, verses) ==
    IF i > Len(lines) THEN verses
    ELSE LET line == Trim(lines[i])
         IN  IF line = <<>>
             THEN IF inStanza > 0
                  THEN VerseLoop(lines, i + 1, stanzaIndex + 1, 0, verses)
                  ELSE VerseLoop(lines, i + 1, stanzaIndex, inStanza, verses)
             ELSE VerseLoop(lines, i + 1, stanzaIndex, inStanza + 1,
                      Append(verses, [text |-> line, index |-> Len(verses),
                                      stanza |-> stanzaIndex,
                                      verseInStanza |-> inStanza,
                                      length |-> Len(line),
                                      wordCount |-> wordsIn(line)]))

\* unnamed/part_000: stanza tracking (the syllables field is not modelled)
detectVersesUTF8(text) ==
    IF text = <<>> THEN <<>>
    ELSE VerseLoop(SplitLines(normalizeUTF8(text)), 1, 0, 0, <<>>)

-----------------------------------------------------------------------------
(* Specification SpecVerses: both verse detectors on short texts           *)

VerseMaxLen == 6

VerseAlphabet == {"a", "b", " ", "\n"}

VerseInputs == UNION { [1..n -> VerseAlphabet] : n \in 0..VerseMaxLen }

InitVerses ==
    /\ input \in VerseInputs
    /\ fn = "none"
    /\ output = NoValue
    /\ OrchIdle

CallDetectVerses ==
    /\ fn = "none"
    /\ output' = detectVerses(input)
    /\ fn' = "detectVerses"
    /\ UNCHANGED input
    /\ UNCHANGED orchVars

CallDetectVersesUTF8 ==
    /\ fn = "none"
    /\ output' = detectVersesUTF8(input)
    /\ fn' = "detectVersesUTF8"
    /\ UNCHANGED input
    /\ UNCHANGED orchVars

NextVerses == CallDetectVerses \/ CallDetectVersesUTF8

SpecVerses == InitVerses /\ [][NextVerses]_vars

\* the lines of the input, and which of them are not blank
InputLines == SplitLines(input)
IsBlankLine(k) == Trim(InputLines[k]) = <<>>
NonBlankLines == { k \in 1..Len(InputLines) : ~IsBlankLine(k) }

\* the line of the v-th verse (1-based): the v-th non-blank line
LineOfVerse(v) ==
    CHOOSE k \in NonBlankLines :
        Cardinality({ j \in NonBlankLines : j <= k }) = v

\* number of non-blank lines directly above line k without a blank between
VersesSinceBlank(k) ==
    Cardinality({ j \in 1..(k - 1) : \A m \in j..(k - 1) : ~IsBlankLine(m) })

\* one verse per non-blank line, in order, with dense index
OneVersePerNonBlankLine ==
    /\ Len(output) = Cardinality(NonBlankLines)
    /\ \A v \in 1..Len(output) :
           /\ output[v].index = v - 1
           /\ output[v].text = Trim(InputLines[LineOfVerse(v)])

\* C7 as stated: one verse per non-blank line in order, and EVERY
\* whitespace-only line increments the stanza counter and resets the
\* in-stanza counter.
C7_EveryBlankLineStartsStanza ==
    fn = "detectVersesUTF8" =>
        /\ OneVersePerNonBlankLine
        /\ \A v \in 1..Len(output) :
               LET k == LineOfVerse(v)
               IN  /\ output[v].stanza =
                          Cardinality({ j \in 1..(k - 1) : IsBlankLine(j) })
                   /\ output[v].verseInStanza = VersesSinceBlank(k)

\* C7 (amended): one verse per non-blank line in order with dense index; a
\* whitespace-only line increments the stanza counter and resets the
\* in-stanza counter only when the current stanza already holds a verse,
\* that is, when the line directly above it is not blank; further blank
\* lines of the same run and blank lines before the first verse count
\* nothing.
C7_BlankLineAfterVerseStartsStanza ==
    fn = "detectVersesUTF8" =>
        /\ OneVersePerNonBlankLine
        /\ \A v \in 1..Len(output) :
               LET k == LineOfVerse(v)
               IN  /\ output[v].stanza =
                          Cardinality({ j \in 2..(k - 1) :
                              IsBlankLine(j) /\ ~IsBlankLine(j - 1) })
                   /\ output[v].verseInStanza = VersesSinceBlank(k)

\* a verse, then a run of at least two blank lines, then the first verse of
\* the next stanza
C7_Witness ==
    /\ fn = "detectVersesUTF8"
    /\ Len(output) = 2
    /\ output[2].stanza = 1
    /\ output[2].verseInStanza = 0
    /\ \E j \in 2..Len(InputLines) : IsBlankLine(j) /\ IsBlankLine(j - 1)

\* C8: fewer than 2 non-blank lines give an empty verse list, 2 or more
\* give one verse per non-blank line.
C8_NoVersesBelowTwoLines ==
    fn \in {"detectVerses", "detectVersesUTF8"} =>
        /\ Cardinality(NonBlankLines) < 2 => output = <<>>
        /\ Cardinality(NonBlankLines) >= 2 => Len(output) = Cardinality(NonBlankLines)

-----------------------------------------------------------------------------
(* Rhyme scheme (services/syntaxAnalysis.js)                               *)

UpperSeq ==
    <<"A","B","C","D","E","F","G","H","I","J","K","L","M",
      "N","O","P","Q","R","S","T","U","V","W","X","Y","Z",
      "U+00C4", "U+00D6", "U+00DC">>

LowerSeq ==
    <<"a","b","c","d","e","f","g","h","i","j","k","l","m",
      "n","o","p","q","r","s","t","u","v","w","x","y","z",
      "U+00E4", "U+00F6", "U+00FC">>

\* String.prototype.toLowerCase
toLowerCase(s) ==
    [k \in 1..Len(s) |->
        IF \E u \in 1..Len(UpperSeq) : UpperSeq[u] = s[k]
        THEN LowerSeq[CHOOSE u \in 1..Len(UpperSeq) : UpperSeq[u] = s[k]]
        ELSE s[k]]

\* verse.text.trim().split(/\s+/) and its last element
LastWord(text) ==
    LET t == Trim(text)
        starts == { k \in 1..Len(t) :
                      t[k] \notin Whitespace /\ (k = 1 \/ t[k - 1] \in Whitespace) }
    IN  IF t = <<>> THEN <<>>
        ELSE SubSeq(t, CHOOSE k \in starts : \A j \in starts : j <= k, Len(t))

\* .replace(/[.,!?;:]$/g, ''): one trailing punctuation mark is removed
StripFinalPunctuation(w) ==
    IF w # <<>> /\ w[Len(w)] \in {".", ",", "!", "?", ";", ":"}
    THEN SubSeq(w, 1, Len(w) - 1) ELSE w

\* word.toLowerCase().replace(/[^a-z<umlauts>]/g, '').slice(-3)
extractPhoneticEnding(word) ==
    LET clean == SelectSeq(toLowerCase(word),
                           LAMBDA c : c \in LowerAscii \cup LowerUmlauts)
    IN  SliceLast(clean, 3)

Min3(a, b, c) ==
    IF a <= b /\ a <= c THEN a ELSE IF b <= c THEN b ELSE c

\* matrix[i][j] of levenshteinDistance: distance between the first i
\* characters of str2 and the first j characters of str1
RECURSIVE LevMatrix(_, _, _, _)
LevMatrix(str1, str2, i, j) ==
    IF i = 0 THEN j
    ELSE IF j = 0 THEN i
    ELSE IF str2[i] = str1[j] THEN LevMatrix(str1, str2, i - 1, j - 1)
    ELSE Min3(LevMatrix(str1, str2, i - 1, j - 1) + 1,
              LevMatrix(str1, str2, i, j - 1) + 1,
              LevMatrix(str1, str2, i - 1, j) + 1)

levenshteinDistance(str1, str2) == LevMatrix(str1, str2, Len(str2), Len(str1))

Max(a, b) == IF a >= b THEN a ELSE b

\* the similarity as the fraction <<numerator, denominator>>:
\* 1 - distance / maxLen = (maxLen - distance) / maxLen
calculatePhoneticSimilarity(ending1, ending2) ==
    IF ending1 = ending2 THEN <<1, 1>>
    ELSE IF Len(ending1) = 0 \/ Len(ending2) = 0 THEN <<0, 1>>
    ELSE LET maxLen == Max(Len(ending1), Len(ending2))
         IN  <<maxLen - levenshteinDistance(ending1, ending2), maxLen>>

\* similarity > 0.6
ExceedsRhymeThreshold_SixTenths(similarity) == 10 * similarity[1] > 6 * similarity[2]

\* similarity > 0.7
ExceedsRhymeThreshold(similarity) == 10 * similarity[1] > 7 * similarity[2]

\* String.fromCharCode('A'.charCodeAt(0) + k - 1); the characters after 'Z'
\* are written by their code
LabelOf(k) == IF k <= 26 THEN UpperSeq[k] ELSE <<"charCode", 64 + k>>

verseEndings(verses) ==
    [k \in 1..Len(verses) |->
        LET lastWord == StripFinalPunctuation(LastWord(verses[k].text))
        IN  [verseIndex |-> verses[k].index,
             word |-> toLowerCase(lastWord),
             ending |-> extractPhoneticEnding(lastWord)]]

\* the inner for loop (j from i + 1): st is [pattern, pairs]
RECURSIVE RhymeInner(_, _, _, _, _)
RhymeInner(endings, i, j, label, st) ==
    IF j > Len(endings) THEN st
    ELSE IF st.pattern[j] # NoValue THEN RhymeInner(endings, i, j + 1, label, st)
    ELSE LET similarity == calculatePhoneticSimilarity(endings[i].ending,
                                                       endings[j].ending)
         IN  IF ExceedsRhymeThreshold(similarity)
             THEN RhymeInner(endings, i, j + 1, label,
                      [pattern |-> [st.pattern EXCEPT ![j] = label],
                       pairs |-> Append(st.pairs,
                           [verse1 |-> i - 1, verse2 |-> j - 1,
                            word1 |-> endings[i].word, word2 |-> endings[j].word,
                            similarity |-> similarity])])
             ELSE RhymeInner(endings, i, j + 1, label, st)

RECURSIVE RhymeOuter_SkipsNeighbour(_, _, _, _)
RhymeOuter_SkipsNeighbour(endings, i, labelNo, st) ==
    IF i > Len(endings) THEN st
    ELSE IF st.pattern[i] # NoValue
         THEN RhymeOuter_SkipsNeighbour(endings, i + 1, labelNo, st)
    ELSE RhymeOuter_SkipsNeighbour(endings, i + 1, labelNo + 1,
             RhymeInner(endings, i, i + 2, LabelOf(labelNo),
                        [st EXCEPT !.pattern[i] = LabelOf(labelNo)]))

\* the outer for loop; labelNo is the number of currentLabel (1 is 'A')
RECURSIVE RhymeOuter(_, _, _, _)
RhymeOuter(endings, i, labelNo, st) ==
    IF i > Len(endings) THEN st
    ELSE IF st.pattern[i] # NoValue THEN RhymeOuter(endings, i + 1, labelNo, st)
    ELSE RhymeOuter(endings, i + 1, labelNo + 1,
             RhymeInner(endings, i, i + 1, LabelOf(labelNo),
                        [st EXCEPT !.pattern[i] = LabelOf(labelNo)]))

\* RHYME_SCHEMES (labels)
RHYME_SCHEMES ==
    [AABB |-> "Paarreim", ABAB |-> "Kreuzreim", ABBA |-> "Umarmender Reim",
     ABCABC |-> "Schweifreim", FREE |-> "Freies Reimschema"]

identifyRhymeSchemeType(scheme) ==
    LET first4 == [k \in 1..(IF Len(scheme) < 4 THEN Len(scheme) ELSE 4) |-> scheme[k]]
    IN  IF first4 = <<"A", "A", "B", "B">> THEN RHYME_SCHEMES.AABB
        ELSE IF first4 = <<"A", "B", "A", "B">> THEN RHYME_SCHEMES.ABAB
        ELSE IF first4 = <<"A", "B", "B", "A">> THEN RHYME_SCHEMES.ABBA
        ELSE IF first4 = <<"A", "B", "C", "A">> THEN RHYME_SCHEMES.ABCABC
        ELSE RHYME_SCHEMES.FREE

\* new Array(n).fill(null)
RECURSIVE NullArray(_)
NullArray(n) == IF n = 0 THEN <<>> ELSE Append(NullArray(n - 1), NoValue)

\* analyzeRhymeScheme (the quality figure is not modelled)
analyzeRhymeScheme(verses) ==
    IF Len(verses) < 2 THEN NoValue
    ELSE LET st == RhymeOuter(verseEndings(verses), 1, 1,
                       [pattern |-> NullArray(Len(verses)), pairs |-> <<>>])
         IN  [pattern |-> st.pattern, scheme |-> st.pattern, pairs |-> st.pairs,
              description |-> identifyRhymeSchemeType(st.pattern)]

-----------------------------------------------------------------------------
(* Specification SpecRhyme: analyzeRhymeScheme on short poems              *)

\* the documented example (QUICKSTART.md, Beispiel 3)
GoetheVerse1 ==
    << "V","o","m"," ","E","i","s","e"," ","b","e","f","r","e","i","t"," ",
       "s","i","n","d"," ","S","t","r","o","m"," ","u","n","d"," ","B",
       "U+00E4","c","h","e" >>
GoetheVerse2 ==
    << "D","u","r","c","h"," ","d","e","s"," ","F","r","U+00FC","h","l",
       "i","n","g","s"," ","h","o","l","d","e","n",","," ","b","e","l","e",
       "b","e","n","d","e","n"," ","B","l","i","c","k","." >>
GoetheVerse3 ==
    << "I","m"," ","T","a","l","e"," ","g","r","U+00FC","n","e","t"," ",
       "H","o","f","f","n","u","n","g","s","g","l","U+00FC","c","k",";" >>
GoetheVerse4 ==
    << "D","e","r"," ","a","l","t","e"," ","W","i","n","t","e","r",","," ",
       "i","n"," ","s","e","i","n","e","r"," ","S","c","h","w","U+00E4",
       "c","h","e","." >>

GoetheVerses == <<GoetheVerse1, GoetheVerse2, GoetheVerse3, GoetheVerse4>>

RhymeMaxVerses == 4

\* verse lines: the four documented ones and short ones whose endings are
\* equal, one edit apart, of different length, empty, or differ in case only
RhymeLines ==
    { GoetheVerse1, GoetheVerse2, GoetheVerse3, GoetheVerse4,
      <<"a","b">>, <<"b"," ","A","B","!">>, <<"!">> }

\* the verse objects detectVerses builds from the lines
MakeVerses(lines) == [k \in 1..Len(lines) |-> [text |-> lines[k], index |-> k - 1]]

RhymeInputs ==
    { MakeVerses(ls) : ls \in UNION { [1..n -> RhymeLines] : n \in 0..RhymeMaxVerses } }

InitRhyme ==
    /\ input \in RhymeInputs
    /\ fn = "none"
    /\ output = NoValue
    /\ OrchIdle

CallAnalyzeRhymeScheme ==
    /\ fn = "none"
    /\ output' = analyzeRhymeScheme(input)
    /\ fn' = "analyzeRhymeScheme"
    /\ UNCHANGED input
    /\ UNCHANGED orchVars

NextRhyme == CallAnalyzeRhymeScheme

SpecRhyme == InitRhyme /\ [][NextRhyme]_vars

\* the endings of the verses handed in
InputEndings == verseEndings(input)

\* the verses i and j rhyme: their ending similarity exceeds 0.7
Rhymes(i, j) ==
    ExceedsRhymeThreshold(
        calculatePhoneticSimilarity(InputEndings[i].ending, InputEndings[j].ending))

\* number of different letters among the first i - 1 entries of the pattern
LettersUsedBefore(i) == Cardinality({ output.pattern[j] : j \in 1..(i - 1) })

C10_GoetheExampleIsABBA ==
    (fn = "analyzeRhymeScheme" /\ input = MakeVerses(GoetheVerses)) =>
        /\ output.pattern = <<"A", "B", "B", "A">>
        /\ output.description = RHYME_SCHEMES.ABBA

-----------------------------------------------------------------------------
(* The orchestrator: TextAnalyzer.analyze                                   *)

\* the keys of MODELS that analyze and its stages consult
ModelKeys == {"SENTIMENT", "NER", "POS", "EMBEDDINGS"}

\* the keys whose MODELS entry has name null: _loadModelPipeline returns
\* null for them and loadModel stores that null under the key
RuleBasedKeys == {"POS"}

\* FEATURES of utils/constants
FEATURES == [SEMANTIC_SIMILARITY |-> TRUE, RULE_BASED_POS |-> TRUE]

\* ModelLoader.isModelLoaded: this.models.has(modelKey)
isModelLoaded(modelKey) == modelKey \in models

\* ModelLoader.getModel returns a pipeline (TRUE) or null (FALSE):
\* this.models.get(modelKey) || null
getModel(modelKey) == modelKey \in models /\ modelKey \notin RuleBasedKeys

\* TextAnalyzer.getUsedModels, for the keys of the model
getUsedModels ==
    [sentiment |-> isModelLoaded("SENTIMENT"),
     ner |-> isModelLoaded("NER"),
     pos |-> isModelLoaded("POS"),
     embeddings |-> isModelLoaded("EMBEDDINGS")]

\* TextAnalyzer.shouldRunModule
shouldRunModule(module, enabledModules) ==
    IF "all" \in enabledModules THEN TRUE ELSE module \in enabledModules

\* String.prototype.charCodeAt for the characters of the analysed texts
DigitSeq == <<"0","1","2","3","4","5","6","7","8","9">>

charCodeAt(c) ==
    IF c = " " THEN 32
    ELSE IF c \in Digits THEN 47 + (CHOOSE d \in 1..10 : DigitSeq[d] = c)
    ELSE 96 + (CHOOSE l \in 1..26 : LowerSeq[l] = c)

\* the loop of hashText on a 32-bit integer kept as two 16-bit halves:
\* ((hash << 5) - hash) + char is 31 * hash + char modulo 2^32
RECURSIVE HashLoop(_, _, _, _)
HashLoop(text, i, hi, lo) ==
    IF i > Len(text) THEN <<hi, lo>>
    ELSE LET low == 31 * lo + charCodeAt(text[i])
             high == 31 * hi + (low \div 65536)
         IN  HashLoop(text, i + 1, high % 65536, low % 65536)

\* TextAnalyzer.hashText: the signed 32-bit result
hashText(text) ==
    LET h == HashLoop(text, 1, 0, 0)
    IN  IF h[1] >= 32768 THEN (h[1] - 65536) * 65536 + h[2]
        ELSE h[1] * 65536 + h[2]

\* the cache keeps at most this many entries
CACHE_LIMIT == 10

\* TextAnalyzer.cacheAnalysis on the Map in insertion order: set keeps the
\* place of a key already present, a new key goes last; above the limit
\* the first key is deleted (the timestamp of an entry is left out)
cacheAnalysis(cache, text, analysis) ==
    LET hash == hashText(text)
        entry == [key |-> hash, analysis |-> analysis]
        set == IF \E n \in 1..Len(cache) : cache[n].key = hash
               THEN [n \in 1..Len(cache) |->
                        IF cache[n].key = hash THEN entry ELSE cache[n]]
               ELSE Append(cache, entry)
    IN  IF Len(set) > CACHE_LIMIT THEN Tail(set) ELSE set

\* Where a call is suspended next, which progress values it has reported by
\* then and which collaborators it has invoked on the way. Each operator is
\* the synchronous code of analyze from one progress milestone to the next
\* await.

\* steps 6 and 7: no await is left
StepSummary(prog) ==
    [pc |-> "finish", progress |-> prog \o <<95, 100>>, calls |-> <<>>]

\* step 5: analyzeSemantics asks the embedding model for the text embedding
StepSemantics(mods, loaded, prog) ==
    IF /\ shouldRunModule("semantics", mods)
       /\ "EMBEDDINGS" \in loaded
       /\ FEATURES.SEMANTIC_SIMILARITY
    THEN [pc |-> "semantics", progress |-> prog \o <<80>>,
          calls |-> <<"analyzeSemantics", "model:EMBEDDINGS">>]
    ELSE StepSummary(prog \o <<80>>)

\* step 4 reporting its milestone only when the syntax module runs
StepSyntax_SilentWhenSkipped(mods, loaded, prog) ==
    IF shouldRunModule("syntax", mods)
    THEN [pc |-> "syntax", progress |-> prog \o <<60>>,
          calls |-> <<"analyzeSyntax">>]
    ELSE StepSemantics(mods, loaded, prog)

\* step 4: analyzeSyntax finds no dependency model and works by rule
StepSyntax(mods, loaded, prog) ==
    IF shouldRunModule("syntax", mods)
    THEN [pc |-> "syntax", progress |-> prog \o <<60>>,
          calls |-> <<"analyzeSyntax">>]
    ELSE StepSemantics(mods, loaded, prog \o <<60>>)

\* step 3: analyzeSentiment hands the text to the sentiment model
StepSentiment(mods, loaded, prog) ==
    IF shouldRunModule("sentiment", mods) /\ "SENTIMENT" \in loaded
    THEN [pc |-> "sentOverall", progress |-> prog \o <<40>>,
          calls |-> <<"analyzeSentiment", "model:SENTIMENT">>]
    ELSE StepSyntax(mods, loaded, prog \o <<40>>)

\* step 2: analyzeTokens applies the NER model when there is one
StepTokens(mods, loaded, prog) ==
    IF shouldRunModule("tokens", mods)
    THEN [pc |-> "tokens", progress |-> prog \o <<20>>,
          calls |-> <<"analyzeTokens">> \o
                    (IF "NER" \in loaded THEN <<"model:NER">> ELSE <<>>)]
    ELSE StepSentiment(mods, loaded, prog \o <<20>>)

\* the result object, reduced to the text, metadata.modelsUsed and which of
\* the optional parts are not null
Analysis(text, calls) ==
    [original |-> text,
     modelsUsed |-> getUsedModels,
     sentiment |-> \E n \in 1..Len(calls) : calls[n] = "analyzeSentiment",
     syntax |-> \E n \in 1..Len(calls) : calls[n] = "analyzeSyntax",
     semantics |-> \E n \in 1..Len(calls) : calls[n] = "analyzeSemantics"]

\* call c, analysing text, arrives at its next await or runs to its return;
\* calls are the collaborators it has invoked by then
Arrive(c, text, step, calls) ==
    /\ progress' = [progress EXCEPT ![c] = step.progress]
    /\ modelCalls' = [modelCalls EXCEPT ![c] = calls]
    /\ IF step.pc = "finish"
       THEN /\ pc' = [pc EXCEPT ![c] = "returned"]
            /\ currentAnalysis' = Analysis(text, calls)
            /\ isAnalyzing' = FALSE
            /\ analysisCache' =
                   cacheAnalysis(analysisCache, text, Analysis(text, calls))
       ELSE /\ pc' = [pc EXCEPT ![c] = step.pc]
            /\ isAnalyzing' = TRUE
            /\ UNCHANGED <<currentAnalysis, analysisCache>>

\* call c resumes after an await that was fulfilled
Continue(c, step) ==
    /\ IF step.pc = "finish"
       THEN Arrive(c, validateText(callText[c]).text, step,
                   modelCalls[c] \o step.calls)
       ELSE /\ progress' = [progress EXCEPT ![c] = step.progress]
            /\ modelCalls' = [modelCalls EXCEPT ![c] = modelCalls[c] \o step.calls]
            /\ pc' = [pc EXCEPT ![c] = step.pc]
            /\ UNCHANGED <<currentAnalysis, analysisCache, isAnalyzing>>
    /\ UNCHANGED <<thrown, models, callText, callModules, callNo, loaderOps,
                   started>>
    /\ UNCHANGED pureVars
    /\ UNCHANGED sideVars

\* what a rejected collaborator call carries as its error.message
ModelError == "model error"

\* the catch block of analyze: `Analyse fehlgeschlagen: ${error.message}`
AnalysisFailed(message) ==
    IF message = ModelError THEN "Analyse fehlgeschlagen: model error"
    ELSE "Analyse fehlgeschlagen: Sentiment Model nicht geladen"

Catch(c, calls, message) ==
    /\ isAnalyzing' = FALSE
    /\ pc' = [pc EXCEPT ![c] = "threw"]
    /\ thrown' = [thrown EXCEPT ![c] = AnalysisFailed(message)]
    /\ modelCalls' = [modelCalls EXCEPT ![c] = modelCalls[c] \o calls]
    /\ UNCHANGED <<currentAnalysis, analysisCache, progress, models,
                   callText, callModules, callNo, loaderOps, started>>
    /\ UNCHANGED pureVars
    /\ UNCHANGED sideVars

\* the number of analyze calls a behaviour makes
MaxAnalyses == 2

\* a call is over once analyze has returned or thrown
Settled(c) == pc[c] \in {"idle", "returned", "threw"}

\* a new call of analyze is call c: the first one that is not in flight
Invoke(c, text, enabledModules) ==
    /\ Settled(c)
    /\ \A d \in Calls : d < c => ~Settled(d)
    /\ started < MaxAnalyses
    /\ started' = started + 1
    /\ callNo' = [callNo EXCEPT ![c] = started + 1]
    /\ callText' = [callText EXCEPT ![c] = text]
    /\ callModules' = [callModules EXCEPT ![c] = enabledModules]
    /\ UNCHANGED <<models, loaderOps>>
    /\ UNCHANGED pureVars
    /\ UNCHANGED sideVars

Analyze_ReportsBeforeValidating(c, text, enabledModules) ==
    LET validation == validateText(text)
    IN  /\ Invoke(c, text, enabledModules)
        /\ IF ~validation.valid
           THEN /\ pc' = [pc EXCEPT ![c] = "threw"]
                /\ thrown' = [thrown EXCEPT ![c] = validation.errorCode]
                /\ progress' = [progress EXCEPT ![c] = <<5>>]
                /\ modelCalls' = [modelCalls EXCEPT ![c] = <<>>]
                /\ isAnalyzing' = TRUE
                /\ UNCHANGED <<currentAnalysis, analysisCache>>
           ELSE /\ thrown' = [thrown EXCEPT ![c] = NoValue]
                /\ Arrive(c, validation.text,
                          StepTokens(enabledModules, models, <<5>>),
                          <<"prepareForModel">> \o
                          StepTokens(enabledModules, models, <<5>>).calls)

\* analyze(text, {enabledModules}, progressCallback) up to its first await,
\* or to the throw of the validation error
Analyze(c, text, enabledModules) ==
    LET validation == validateText(text)
    IN  /\ Invoke(c, text, enabledModules)
        /\ IF ~validation.valid
           THEN /\ pc' = [pc EXCEPT ![c] = "threw"]
                /\ thrown' = [thrown EXCEPT ![c] = validation.errorCode]
                /\ progress' = [progress EXCEPT ![c] = <<>>]
                /\ modelCalls' = [modelCalls EXCEPT ![c] = <<>>]
                /\ UNCHANGED <<isAnalyzing, currentAnalysis, analysisCache>>
           ELSE /\ thrown' = [thrown EXCEPT ![c] = NoValue]
                /\ Arrive(c, validation.text,
                          StepTokens(enabledModules, models, <<5>>),
                          <<"prepareForModel">> \o
                          StepTokens(enabledModules, models, <<5>>).calls)

\* analyzeTokens has returned (it catches the errors of its models)
ResumeTokens(c) ==
    /\ pc[c] = "tokens"
    /\ Continue(c, StepSentiment(callModules[c], models, progress[c]))

\* the model call of analyzeSentiment has settled; analyzeSentenceSentiment
\* starts and throws when the model is gone
ResumeSentOverall(c, fulfilled) ==
    /\ pc[c] = "sentOverall"
    /\ IF ~fulfilled THEN Catch(c, <<>>, ModelError)
       ELSE IF "SENTIMENT" \notin models
       THEN Catch(c, <<"analyzeSentenceSentiment">>,
                  "Sentiment Model nicht geladen")
       ELSE Continue(c, [pc |-> "sentSentences", progress |-> progress[c],
                         calls |-> <<"analyzeSentenceSentiment",
                                     "model:SENTIMENT">>])

\* the batch call of analyzeSentenceSentiment has settled;
\* analyzeWordSentiment starts and skips its work when the model is gone
ResumeSentSentences(c, fulfilled) ==
    /\ pc[c] = "sentSentences"
    /\ IF ~fulfilled THEN Catch(c, <<>>, ModelError)
       ELSE Continue(c, [pc |-> "sentWords", progress |-> progress[c],
                         calls |-> <<"analyzeWordSentiment">> \o
                                   (IF "SENTIMENT" \in models
                                    THEN <<"model:SENTIMENT">> ELSE <<>>)])

\* analyzeWordSentiment has settled
ResumeSentWords(c, fulfilled) ==
    /\ pc[c] = "sentWords"
    /\ modelCalls[c][Len(modelCalls[c])] # "model:SENTIMENT" => fulfilled
    /\ IF ~fulfilled THEN Catch(c, <<>>, ModelError)
       ELSE Continue(c, StepSyntax(callModules[c], models, progress[c]))

\* analyzeSyntax has returned
ResumeSyntax(c) ==
    /\ pc[c] = "syntax"
    /\ Continue(c, StepSemantics(callModules[c], models, progress[c]))

\* analyzeSemantics has returned (it catches the errors of its model)
ResumeSemantics(c) ==
    /\ pc[c] = "semantics"
    /\ Continue(c, StepSummary(progress[c]))

\* the number of loads and unloads a behaviour makes
MaxLoaderOps == 1

\* ModelLoader.loadModel stores the pipeline it has loaded
loadModel(modelKey) ==
    /\ modelKey \notin models
    /\ loaderOps < MaxLoaderOps
    /\ loaderOps' = loaderOps + 1
    /\ models' = models \cup {modelKey}
    /\ UNCHANGED <<isAnalyzing, currentAnalysis, analysisCache, pc, callText,
                   callModules, progress, modelCalls, thrown, callNo, started>>
    /\ UNCHANGED pureVars
    /\ UNCHANGED sideVars

\* ModelLoader.unloadModel
unloadModel(modelKey) ==
    /\ modelKey \in models
    /\ loaderOps < MaxLoaderOps
    /\ loaderOps' = loaderOps + 1
    /\ models' = models \ {modelKey}
    /\ UNCHANGED <<isAnalyzing, currentAnalysis, analysisCache, pc, callText,
                   callModules, progress, modelCalls, thrown, callNo, started>>
    /\ UNCHANGED pureVars
    /\ UNCHANGED sideVars

-----------------------------------------------------------------------------
(* Specification SpecAnalyze: calls of analyze, two of them at a time      *)

\* texts around the validation bounds: empty, too short once trimmed, too
\* few letters, and two valid ones
AnalyzeTexts ==
    { <<>>, <<" ">> \o Repeat("a", 9), Repeat("1", 10),
      Repeat("a", 10), Repeat("a", 9) \o <<"b">> }

ModuleChoices == { {"all"}, {"sentiment", "semantics"} }

InitAnalyze ==
    /\ input = NoValue
    /\ fn = "none"
    /\ output = NoValue
    /\ isAnalyzing = FALSE
    /\ currentAnalysis = NoValue
    /\ analysisCache = <<>>
    /\ models \in SUBSET ModelKeys
    /\ pc = [c \in Calls |-> "idle"]
    /\ callText = [c \in Calls |-> NoValue]
    /\ callModules = [c \in Calls |-> NoValue]
    /\ progress = [c \in Calls |-> <<>>]
    /\ modelCalls = [c \in Calls |-> <<>>]
    /\ thrown = [c \in Calls |-> NoValue]
    /\ callNo = [c \in Calls |-> 0]
    /\ loaderOps = 0
    /\ started = 0
    /\ SideIdle

NextAnalyze ==
    \/ \E c \in Calls, text \in AnalyzeTexts, m \in ModuleChoices :
           Analyze(c, text, m)
    \/ \E c \in Calls : ResumeTokens(c)
    \/ \E c \in Calls, fulfilled \in BOOLEAN : ResumeSentOverall(c, fulfilled)
    \/ \E c \in Calls, fulfilled \in BOOLEAN : ResumeSentSentences(c, fulfilled)
    \/ \E c \in Calls, fulfilled \in BOOLEAN : ResumeSentWords(c, fulfilled)
    \/ \E c \in Calls : ResumeSyntax(c)
    \/ \E c \in Calls : ResumeSemantics(c)
    \/ \E modelKey \in ModelKeys : loadModel(modelKey)
    \/ \E modelKey \in ModelKeys : unloadModel(modelKey)

SpecAnalyze == InitAnalyze /\ [][NextAnalyze]_vars

\* C2: a call of analyze with a text that validateText rejects throws the
\* validation error, reports no progress, invokes no collaborator and
\* leaves isAnalyzing, currentAnalysis and the cache as they were.
C2_ValidationFailureIsTerminal ==
    [][\A c \in Calls :
          (callNo'[c] # callNo[c] /\ ~validateText(callText'[c]).valid)
          => /\ pc'[c] = "threw"
             /\ thrown'[c] = validateText(callText'[c]).errorCode
             /\ progress'[c] = <<>>
             /\ modelCalls'[c] = <<>>
             /\ isAnalyzing' = isAnalyzing
             /\ currentAnalysis' = currentAnalysis
             /\ analysisCache' = analysisCache]_vars

\* a text is rejected while another call is in flight
C2_Witness ==
    \E c \in Calls :
        /\ pc[c] = "threw"
        /\ thrown[c] = "TEXT_TOO_SHORT"
        /\ progress[c] = <<>>
        /\ modelCalls[c] = <<>>
        /\ isAnalyzing = TRUE
        /\ \E d \in Calls : pc[d] = "sentWords"

-----------------------------------------------------------------------------
(* Word repetitions                                                         *)

\* a token list as tokenizeText returns it, from the texts of the tokens
TokensOf(texts) ==
    [k \in 1..Len(texts) |->
        [text |-> texts[k], position |-> k - 1,
         isPunctuation |-> Len(texts[k]) = 1 /\ texts[k][1] \in TokenPunctuation]]

\* the Map of the collecting loop in insertion order: one entry per
\* lowercased word of a token that is no punctuation and longer than
\* minLength, with the positions pushed in token order
RECURSIVE CollectRepetitions(_, _, _, _)
CollectRepetitions(tokens, i, minLength, map) ==
    IF i > Len(tokens) THEN map
    ELSE LET token == tokens[i]
             word == toLowerCase(token.text)
         IN  IF token.isPunctuation \/ ~(Len(token.text) > minLength)
             THEN CollectRepetitions(tokens, i + 1, minLength, map)
             ELSE IF \E n \in 1..Len(map) : map[n].key = word
             THEN CollectRepetitions(tokens, i + 1, minLength,
                      [n \in 1..Len(map) |->
                          IF map[n].key = word
                          THEN [map[n] EXCEPT !.count = @ + 1,
                                              !.positions = Append(@, token.position)]
                          ELSE map[n]])
             ELSE CollectRepetitions(tokens, i + 1, minLength,
                      Append(map, [key |-> word, word |-> token.text, count |-> 1,
                                   positions |-> <<token.position>>]))

significantRepetitions_KeepsSingles(map) ==
    SelectSeq(map, LAMBDA r : r.count > 0)

\* .filter(r => r.count > 1)
significantRepetitions(map) ==
    SelectSeq(map, LAMBDA r : r.count > 1)

\* Array.prototype.sort with a comparator b.rank - a.rank: stable,
\* descending
RECURSIVE InsertDescending(_, _)
InsertDescending(sorted, e) ==
    IF sorted = <<>> THEN <<e>>
    ELSE IF Head(sorted).rank >= e.rank
    THEN <<Head(sorted)>> \o InsertDescending(Tail(sorted), e)
    ELSE <<e>> \o sorted

RECURSIVE SortDescending(_)
SortDescending(seq) ==
    IF seq = <<>> THEN <<>>
    ELSE InsertDescending(SortDescending(SubSeq(seq, 1, Len(seq) - 1)),
                          seq[Len(seq)])

\* calculateRepetitionSignificance for tokens without a posTag, times
\* 10 * totalTokens: count * min(word.length, 15)
significance(r) ==
    r.count * (IF Len(r.word) < 15 THEN Len(r.word) ELSE 15)

\* syntaxAnalysis.js analyzeRepetitions (the patterns of an entry and the
\* anaphora, epiphora and symploce lists are not modelled)
analyzeRepetitions(tokens) ==
    LET found == significantRepetitions(CollectRepetitions(tokens, 1, 2, <<>>))
        sorted == SortDescending(
                      [n \in 1..Len(found) |->
                          [word |-> found[n].key, count |-> found[n].count,
                           positions |-> found[n].positions,
                           rank |-> significance(found[n])]])
    IN  [total |-> Len(sorted), repetitions |-> sorted]

\* the older findRepetitions (isAnaphora and isEpiphora are not modelled)
findRepetitions(tokens) ==
    LET found == significantRepetitions(CollectRepetitions(tokens, 1, 3, <<>>))
    IN  SortDescending(
            [n \in 1..Len(found) |->
                [word |-> found[n].key, count |-> found[n].count,
                 positions |-> found[n].positions, rank |-> found[n].count]])

-----------------------------------------------------------------------------
(* Specification SpecRepetitions: both repetition finders on token lists   *)

RepMaxTokens == 4

\* words of 2, 3 and 4 characters, one of them in two spellings, and a
\* punctuation mark
RepWords == { <<"d","u">>, <<"D","e","r">>, <<"d","e","r">>,
              <<"H","a","u","s">>, <<".">> }

RepInputs ==
    { TokensOf(texts) : texts \in UNION { [1..n -> RepWords] : n \in 0..RepMaxTokens } }

InitRepetitions ==
    /\ input \in RepInputs
    /\ fn = "none"
    /\ output = NoValue
    /\ OrchIdle

CallAnalyzeRepetitions ==
    /\ fn = "none"
    /\ output' = analyzeRepetitions(input).repetitions
    /\ fn' = "analyzeRepetitions"
    /\ UNCHANGED input
    /\ UNCHANGED orchVars

CallFindRepetitions ==
    /\ fn = "none"
    /\ output' = findRepetitions(input)
    /\ fn' = "findRepetitions"
    /\ UNCHANGED input
    /\ UNCHANGED orchVars

NextRepetitions == CallAnalyzeRepetitions \/ CallFindRepetitions

SpecRepetitions == InitRepetitions /\ [][NextRepetitions]_vars

\* the positions of the non-punctuation tokens whose lowercased text is w,
\* in token order
OccurrencesOf(w) ==
    LET hits == SelectSeq(input, LAMBDA t : ~t.isPunctuation /\ toLowerCase(t.text) = w)
    IN  [n \in 1..Len(hits) |-> hits[n].position]

\* the lowercased words of the non-punctuation tokens
WordsOfInput ==
    { toLowerCase(input[k].text) : k \in { j \in 1..Len(input) : ~input[j].isPunctuation } }

RepetitionsListed == fn \in {"analyzeRepetitions", "findRepetitions"}

\* every listed entry is a word of the input, listed once, with its
\* occurrences in order and count = positions.length
ListedEntriesAreExact ==
    /\ \A n \in 1..Len(output) :
          /\ output[n].word \in WordsOfInput
          /\ output[n].positions = OccurrencesOf(output[n].word)
          /\ output[n].count = Len(output[n].positions)
    /\ \A n, m \in 1..Len(output) : output[n].word = output[m].word => n = m

\* the word length a finder skips: text.length > 2, in findRepetitions > 3
SkippedLength == IF fn = "findRepetitions" THEN 3 ELSE 2

\* C11 as stated: a word occurring once is never listed, a word occurring
\* twice or more is always listed, and every entry has positions.length =
\* count with the positions of its occurrences in order.
C11_RepeatedWordsAlwaysListed ==
    RepetitionsListed =>
        /\ ListedEntriesAreExact
        /\ \A w \in WordsOfInput :
               (\E n \in 1..Len(output) : output[n].word = w)
                   <=> Len(OccurrencesOf(w)) >= 2

\* C11 (amended): a word occurring once is never listed; a word occurring
\* twice or more is listed exactly when it is longer than 2 characters (3
\* in findRepetitions); every entry has positions.length = count with the
\* positions of its occurrences in order.
C11_RepeatedLongWordsListed ==
    RepetitionsListed =>
        /\ ListedEntriesAreExact
        /\ \A w \in WordsOfInput :
               (\E n \in 1..Len(output) : output[n].word = w)
                   <=> (Len(OccurrencesOf(w)) >= 2 /\ Len(w) > SkippedLength)

\* a word in two spellings is listed with both positions next to a word
\* that occurs once
C11_Witness ==
    /\ fn = "analyzeRepetitions"
    /\ Len(input) = 4
    /\ Len(output) = 1
    /\ output[1].word = <<"d","e","r">>
    /\ output[1].positions = <<0, 2>>
    /\ input[1].text # input[3].text
    /\ \E w \in WordsOfInput : Len(OccurrencesOf(w)) = 1

-----------------------------------------------------------------------------
(* Semantic fields                                                          *)

\* the sums of the loop of cosineSimilarity
RECURSIVE DotFrom(_, _, _)
DotFrom(vec1, vec2, i) ==
    IF i > Len(vec1) THEN 0 ELSE vec1[i] * vec2[i] + DotFrom(vec1, vec2, i + 1)

dotProduct(vec1, vec2) == DotFrom(vec1, vec2, 1)

\* cosineSimilarity(vec1, vec2) > 0.5 without the square roots: the
\* similarity is 0 for vectors of different or no length and for a zero
\* norm, otherwise dot / sqrt(norm1 * norm2)
SimilarityAboveMedium(vec1, vec2) ==
    /\ Len(vec1) = Len(vec2) /\ Len(vec1) > 0
    /\ dotProduct(vec1, vec1) > 0 /\ dotProduct(vec2, vec2) > 0
    /\ dotProduct(vec1, vec2) > 0
    /\ 4 * dotProduct(vec1, vec2) * dotProduct(vec1, vec2)
           > dotProduct(vec1, vec1) * dotProduct(vec2, vec2)

\* parseFloat(similarity.toFixed(3)) > 0.5: the rounded value is at least
\* 0.501, so the similarity itself is at least 0.5005 = 1001 / 2000, that
\* is 4000000 * dot^2 >= 1002001 * norm1 * norm2. With the difference
\* excess = 4 * dot^2 - norm1 * norm2 this is 1000000 * excess >= 2001 *
\* norms, which holds whenever 400 * excess >= norms; the cases are told
\* apart so that every product stays within 32 bits
StoredSimilarityAboveMedium(vec1, vec2) ==
    LET norms == dotProduct(vec1, vec1) * dotProduct(vec2, vec2)
        excess == 4 * dotProduct(vec1, vec2) * dotProduct(vec1, vec2) - norms
    IN  /\ Len(vec1) = Len(vec2) /\ Len(vec1) > 0
        /\ dotProduct(vec1, vec1) > 0 /\ dotProduct(vec2, vec2) > 0
        /\ dotProduct(vec1, vec2) > 0
        /\ IF excess >= norms THEN TRUE
           ELSE IF 400 * excess >= norms THEN TRUE
           ELSE 1000000 * excess >= 2001 * norms

\* calculateSemanticSimilarities: the pairs i < j above the threshold, with
\* whether the stored (rounded) similarity is still above it; the order of
\* the list is not modelled
calculateSemanticSimilarities(wordEmbeddings) ==
    { [word1 |-> wordEmbeddings[i].word, word2 |-> wordEmbeddings[j].word,
       aboveMedium |-> StoredSimilarityAboveMedium(wordEmbeddings[i].embedding,
                                                    wordEmbeddings[j].embedding)] :
        <<i, j>> \in { p \in (1..Len(wordEmbeddings)) \X (1..Len(wordEmbeddings)) :
                          /\ p[1] < p[2]
                          /\ SimilarityAboveMedium(wordEmbeddings[p[1]].embedding,
                                                   wordEmbeddings[p[2]].embedding) } }

\* graph.keys(): the words in the order of their first embedding
RECURSIVE GraphKeys(_, _, _)
GraphKeys(wordEmbeddings, i, keys) ==
    IF i > Len(wordEmbeddings) THEN keys
    ELSE IF \E n \in 1..Len(keys) : keys[n] = wordEmbeddings[i].word
    THEN GraphKeys(wordEmbeddings, i + 1, keys)
    ELSE GraphKeys(wordEmbeddings, i + 1, Append(keys, wordEmbeddings[i].word))

\* graph.get(word): the neighbours of a word
Neighbours(similarities, word) ==
    { s.word2 : s \in { t \in similarities : t.aboveMedium /\ t.word1 = word } }
        \cup { s.word1 : s \in { t \in similarities : t.aboveMedium /\ t.word2 = word } }

\* the while loop over the queue: every word reached from the first one
RECURSIVE Visit(_, _, _)
Visit(similarities, cluster, queue) ==
    IF queue = {} THEN cluster
    ELSE LET found == cluster \cup queue
         IN  Visit(similarities, found,
                   UNION { Neighbours(similarities, w) : w \in queue } \ found)

identifySemanticFields_KeepsSingles(wordEmbeddings, similarities) ==
    LET keys == GraphKeys(wordEmbeddings, 1, <<>>)
        first == SelectSeq([n \in 1..Len(keys) |->
                               [word |-> keys[n], n |-> n,
                                words |-> Visit(similarities, {}, {keys[n]})]],
                           LAMBDA c : \A m \in 1..(c.n - 1) : keys[m] \notin c.words)
        clusters == SelectSeq(first, LAMBDA c : Cardinality(c.words) >= 1)
        sorted == SortDescending([n \in 1..Len(clusters) |->
                                     [words |-> clusters[n].words,
                                      size |-> Cardinality(clusters[n].words),
                                      rank |-> Cardinality(clusters[n].words)]])
    IN  IF Len(wordEmbeddings) < 3 THEN <<>>
        ELSE SubSeq(sorted, 1, IF Len(sorted) < 10 THEN Len(sorted) ELSE 10)

\* identifySemanticFields: one cluster per word of graph.keys() not visited
\* before, kept when it has 2 words or more, sorted by size, the first 10
\* (a cluster is modelled as the set of its words; theme, representatives
\* and coherence are not modelled)
identifySemanticFields(wordEmbeddings, similarities) ==
    LET keys == GraphKeys(wordEmbeddings, 1, <<>>)
        first == SelectSeq([n \in 1..Len(keys) |->
                               [word |-> keys[n], n |-> n,
                                words |-> Visit(similarities, {}, {keys[n]})]],
                           LAMBDA c : \A m \in 1..(c.n - 1) : keys[m] \notin c.words)
        clusters == SelectSeq(first, LAMBDA c : Cardinality(c.words) >= 2)
        sorted == SortDescending([n \in 1..Len(clusters) |->
                                     [words |-> clusters[n].words,
                                      size |-> Cardinality(clusters[n].words),
                                      rank |-> Cardinality(clusters[n].words)]])
    IN  IF Len(wordEmbeddings) < 3 THEN <<>>
        ELSE SubSeq(sorted, 1, IF Len(sorted) < 10 THEN Len(sorted) ELSE 10)

-----------------------------------------------------------------------------
(* Specification SpecFields: semantic fields of short embedding lists      *)

FieldMaxWords == 4

\* words with their embeddings: two parallel pairs that are orthogonal to
\* each other, vectors at exactly 0.5 of each other, a chain, a zero
\* vector, and g whose similarity to d is 0.5003, which is stored as 0.5
FieldVocabulary ==
    { [word |-> "a", embedding |-> <<1, 1, 0>>],
      [word |-> "f", embedding |-> <<2, 2, 0>>],
      [word |-> "b", embedding |-> <<0, 1, 1>>],
      [word |-> "c", embedding |-> <<1, 1, 1>>],
      [word |-> "d", embedding |-> <<0, 0, 1>>],
      [word |-> "h", embedding |-> <<0, 0, 2>>],
      [word |-> "e", embedding |-> <<0, 0, 0>>],
      [word |-> "g", embedding |-> <<0, 45, 26>>] }

FieldInputs == UNION { [1..n -> FieldVocabulary] : n \in 0..FieldMaxWords }

InitFields ==
    /\ input \in FieldInputs
    /\ fn = "none"
    /\ output = NoValue
    /\ OrchIdle

CallIdentifySemanticFields ==
    /\ fn = "none"
    /\ output' = identifySemanticFields(input, calculateSemanticSimilarities(input))
    /\ fn' = "identifySemanticFields"
    /\ UNCHANGED input
    /\ UNCHANGED orchVars

NextFields == CallIdentifySemanticFields

SpecFields == InitFields /\ [][NextFields]_vars

\* some pair of different words of the input has similarity above 0.5
SomePairAboveThreshold ==
    \E i, j \in 1..Len(input) :
        /\ input[i].word # input[j].word
        /\ SimilarityAboveMedium(input[i].embedding, input[j].embedding)

\* C12: no semantic field has fewer than 2 words, and without a pair of
\* words above the threshold the field list is empty.
C12_ClusteringSizeFloor ==
    fn = "identifySemanticFields" =>
        /\ \A n \in 1..Len(output) :
               Cardinality(output[n].words) >= 2 /\ output[n].size >= 2
        /\ ~SomePairAboveThreshold => output = <<>>

\* a field of two words besides a word that is similar to neither of them
C12_Witness ==
    /\ fn = "identifySemanticFields"
    /\ Len(output) = 1
    /\ output[1].size = 2
    /\ \E i \in 1..Len(input) :
          /\ \A n \in 1..Len(output) : input[i].word \notin output[n].words
          /\ dotProduct(input[i].embedding, input[i].embedding) > 0


-----------------------------------------------------------------------------
\* Readability.  Real numbers are kept as exact fractions; toFixed(2) yields
\* an integer number of hundredths.

\* /[aeiouäöüy]/ of estimateSyllables
SyllableVowels == {"a", "e", "i", "o", "u", "y", "U+00E4", "U+00F6", "U+00FC"}

\* text.split(/\s+/): the pieces between whitespace runs; empty pieces are
\* skipped by the caller (if (!word) continue)
RECURSIVE SplitWords(_, _, _, _)
SplitWords(s, i, cur, acc) ==
    IF i > Len(s) THEN (IF cur = <<>> THEN acc ELSE Append(acc, cur))
    ELSE IF s[i] \in Whitespace
         THEN SplitWords(s, i + 1, <<>>,
                         IF cur = <<>> THEN acc ELSE Append(acc, cur))
         ELSE SplitWords(s, i + 1, Append(cur, s[i]), acc)

\* word.match(/[aeiouäöüy]+|ei|eu|au|äu|ie/gu): the first alternative takes
\* every maximal vowel run, so the match count is the number of runs
vowelGroups(word) ==
    Cardinality({k \in 1..Len(word) :
                    /\ word[k] \in SyllableVowels
                    /\ (k = 1 \/ word[k - 1] \notin SyllableVowels)})

\* /[^aeiouäöüy]e$/u
SilentE(word) ==
    /\ Len(word) >= 2
    /\ word[Len(word)] = "e"
    /\ word[Len(word) - 1] \notin SyllableVowels

wordSyllables(word) ==
    LET groups == vowelGroups(word)
        syllables == IF groups > 0 THEN groups ELSE 1
        adjusted == IF SilentE(word) /\ syllables > 1
                    THEN syllables - 1 ELSE syllables
    IN  IF adjusted > 1 THEN adjusted ELSE 1

RECURSIVE SumSyllables(_, _)
SumSyllables(words, i) ==
    IF i > Len(words) THEN 0
    ELSE wordSyllables(words[i]) + SumSyllables(words, i + 1)

estimateSyllables(text) ==
    IF text = <<>> THEN 0
    ELSE SumSyllables(SplitWords(toLowerCase(text), 1, <<>>, <<>>), 1)

\* (n / d).toFixed(2) in hundredths, n >= 0 and d > 0
toFixed2(n, d) == (200 * n + d) \div (2 * d)

\* (n / d).toFixed(2) in hundredths for either sign, d > 0; the whole part
\* is split off first
toFixed2Signed(n, d) ==
    LET magnitude == IF n < 0 THEN -n ELSE n
        hundredths == 100 * (magnitude \div d) + toFixed2(magnitude % d, d)
    IN  IF n < 0 THEN -hundredths ELSE hundredths

\* Math.max(0, Math.min(20, n / d)), d > 0
clampWienerIndex(n, d) ==
    IF n > 20 * d THEN [num |-> 20, den |-> 1]
    ELSE IF n < 0 THEN [num |-> 0, den |-> 1]
    ELSE [num |-> n, den |-> d]

\* Math.max(0, Math.min(100, n / d)) left out of the lower bound
clampReadingEase_NoFloor(n, d) ==
    IF n > 100 * d THEN [num |-> 100, den |-> 1]
    ELSE [num |-> n, den |-> d]

\* Math.max(0, Math.min(100, n / d)), d > 0
clampReadingEase(n, d) ==
    IF n > 100 * d THEN [num |-> 100, den |-> 1]
    ELSE IF n < 0 THEN [num |-> 0, den |-> 1]
    ELSE [num |-> n, den |-> d]

\* textPreprocessing.js: the Flesch and Wiener parts of
\* calculateReadabilityMetrics.
\* fleschReading = 180 - asl - 58.5 * asw as the fraction
\* (360*S*Wm - 2*W*Wm - 117*Y*S) / (2*S*Wm);
\* wstf = 0.1935*ms + 0.1672*sl + 0.1297*iw - 0.0327*es - 0.875 with
\* ms = 100*multi/Wm, iw = 100*long/Wm, es = 100*mono/Wm and sl the
\* toFixed(2) average in hundredths, as the fraction
\* (2418750*multi + 209*sl*Wm + 1621250*long - 408750*mono - 109375*Wm)
\* / (125000*Wm)
calculateReadabilityMetrics(text) ==
    LET sentences == sentenceSegmentation(text)
        words == SelectSeq(tokenizeText(text), LAMBDA t : ~t.isPunctuation)
        syllableCount == estimateSyllables(text)
        wordTotal == Len(words)
        sentenceCount == Max(Len(sentences), 1)
        wordDen == Max(wordTotal, 1)
        num == 360 * sentenceCount * wordDen - 2 * wordTotal * wordDen
               - 117 * syllableCount * sentenceCount
        den == 2 * sentenceCount * wordDen
        readingEase == clampReadingEase(num, den)
        multiSyllableWords ==
            Len(SelectSeq(words, LAMBDA w : estimateSyllables(w.text) >= 3))
        longWords == Len(SelectSeq(words, LAMBDA w : Len(w.text) > 6))
        monoSyllableWords ==
            Len(SelectSeq(words, LAMBDA w : estimateSyllables(w.text) = 1))
        sl == toFixed2(wordTotal, sentenceCount)
        wstfNum == 2418750 * multiSyllableWords + 209 * sl * wordDen
                   + 1621250 * longWords - 408750 * monoSyllableWords
                   - 109375 * wordDen
        wstfDen == 125000 * wordDen
        wienerIndex == clampWienerIndex(wstfNum, wstfDen)
    IN  [ wordCount |-> wordTotal,
          sentenceCount |-> Len(sentences),
          syllableCount |-> syllableCount,
          fleschNum |-> num,
          fleschDen |-> den,
          readingEase |-> toFixed2(readingEase.num, readingEase.den),
          multiSyllableWords |-> multiSyllableWords,
          longWords |-> longWords,
          monoSyllableWords |-> monoSyllableWords,
          sl |-> sl,
          wstfNum |-> wstfNum,
          wstfDen |-> wstfDen,
          wienerIndex |-> toFixed2Signed(wienerIndex.num, wienerIndex.den) ]

RECURSIVE SumLengths(_, _)
SumLengths(words, i) ==
    IF i > Len(words) THEN 0
    ELSE words[i].length + SumLengths(words, i + 1)

\* unnamed/part_000: averages are parseFloat(x.toFixed(2)), in hundredths;
\* an empty list gives 0
calculateStatistics(tokens, sentences) ==
    LET words == SelectSeq(tokens, LAMBDA t : ~t.isPunctuation)
    IN  [ wordCount |-> Len(words),
          sentenceCount |-> Len(sentences),
          avgWordLength |->
              IF Len(words) > 0
              THEN toFixed2(SumLengths(words, 1), Len(words)) ELSE 0,
          avgWordsPerSentence |->
              IF Len(sentences) > 0
              THEN toFixed2(Len(words), Len(sentences)) ELSE 0 ]

\* unnamed/part_000 estimateSyllables on one word: the vowel runs, less half
\* a syllable for every occurrence of a diphthong, rounded, at least 1
DIPHTHONGS ==
    { <<"a", "u">>, <<"U+00E4", "u">>, <<"e", "i">>, <<"e", "u">>,
      <<"a", "i">>, <<"i", "e">> }

estimateSyllablesUTF8(text) ==
    LET lower == toLowerCase(text)
        runs == vowelGroups(lower)
        matches == Cardinality({ k \in 1..(Len(lower) - 1) :
                                   <<lower[k], lower[k + 1]>> \in DIPHTHONGS })
        rounded == (2 * runs - matches + 1) \div 2
    IN  IF Len(text) = 0 THEN 0
        ELSE IF runs = 0 THEN 1
        ELSE IF rounded > 1 THEN rounded ELSE 1

countMultiSyllableWords(words) ==
    Len(SelectSeq(words, LAMBDA w : estimateSyllablesUTF8(w.text) >= 3))

countLongWords(words) == Len(SelectSeq(words, LAMBDA w : Len(w.text) > 6))

countMonosyllableWords(words) ==
    Len(SelectSeq(words, LAMBDA w : estimateSyllablesUTF8(w.text) = 1))

\* unnamed/part_000: asl = stats.avgWordsPerSentence || 1,
\* asw = stats.avgWordLength || 1 (hundredths: 0 becomes 100);
\* 180 - asl - 58.5 * asw as the fraction (36000 - 2*asl - 117*asw) / 200;
\* the Wiener index 0.1935*ms + 0.1672*asl + 0.1297*iw - 0.0327*es - 0.875
\* on the three counts, as the fraction
\* (48375*ms + 418*asl + 32425*iw - 8175*es - 218750) / 250000, with
\* toFixed(2) and no clamp
calculateReadability(stats, tokens) ==
    LET asl == IF stats.avgWordsPerSentence = 0
               THEN 100 ELSE stats.avgWordsPerSentence
        asw == IF stats.avgWordLength = 0 THEN 100 ELSE stats.avgWordLength
        num == 36000 - 2 * asl - 117 * asw
        readingEase == clampReadingEase(num, 200)
        words == SelectSeq(tokens, LAMBDA t : ~t.isPunctuation)
        ms == countMultiSyllableWords(words)
        iw == countLongWords(words)
        es == countMonosyllableWords(words)
        wstfNum == 48375 * ms + 418 * asl + 32425 * iw - 8175 * es - 218750
    IN  [ wordCount |-> stats.wordCount,
          sentenceCount |-> stats.sentenceCount,
          fleschNum |-> num,
          fleschDen |-> 200,
          readingEase |-> toFixed2(readingEase.num, readingEase.den),
          multiSyllableWords |-> ms,
          longWords |-> iw,
          monoSyllableWords |-> es,
          sl |-> asl,
          wstfNum |-> wstfNum,
          wstfDen |-> 250000,
          wienerIndex |-> toFixed2Signed(wstfNum, 250000) ]

\* unnamed/part_000 prepareForModel: statistics and readability of the
\* normalised text
prepareForModelReadability(text) ==
    LET normalized == normalizeUTF8(text)
        tokens == tokenizeTextUTF8(normalized)
    IN  calculateReadability(
            calculateStatistics(tokens, sentenceSegmentationUTF8(normalized)),
            tokens)

ReadMaxPieces == 4

ReadPieces == { <<"a">>, <<"b", "e">>, <<"1", " ">>, <<" ">>, <<".", " ">>,
                <<"B", "a", "u", "m", "h", "a", "u", "s">> }

ReadInputs ==
    { Concat(p) : p \in UNION { [1..n -> ReadPieces] : n \in 0..ReadMaxPieces } }

InitReadability ==
    /\ input \in ReadInputs
    /\ fn = "none"
    /\ output = NoValue
    /\ OrchIdle

CallCalculateReadabilityMetrics ==
    /\ fn = "none"
    /\ output' = calculateReadabilityMetrics(input)
    /\ fn' = "calculateReadabilityMetrics"
    /\ UNCHANGED input
    /\ UNCHANGED orchVars

CallCalculateReadability ==
    /\ fn = "none"
    /\ output' = prepareForModelReadability(input)
    /\ fn' = "calculateReadability"
    /\ UNCHANGED input
    /\ UNCHANGED orchVars

NextReadability == CallCalculateReadabilityMetrics \/ CallCalculateReadability

SpecReadability == InitReadability /\ [][NextReadability]_vars

\* C13: whatever the text, and in particular when it has no words or no
\* sentences, the Flesch reading ease that either readability function
\* reports is a defined number between 0 and 100 (0 and 10000 hundredths).
C13_FleschWithinRange ==
    fn \in {"calculateReadabilityMetrics", "calculateReadability"}
        => /\ output.readingEase \in 0..10000
           /\ output.fleschDen > 0

\* a text without any word whose unclamped value is negative, reported as 0
C13_Witness ==
    /\ fn = "calculateReadabilityMetrics"
    /\ output.wordCount = 0
    /\ output.fleschNum < 0
    /\ output.readingEase = 0

-----------------------------------------------------------------------------
(* Named entities                                                          *)

\* ANALYSIS_CONFIG.THRESHOLDS.ENTITY_CONFIDENCE in hundredths
ENTITY_CONFIDENCE == 75

\* analyzeTokens: the entity fields every token starts with
WithoutEntity(tokens) ==
    [k \in 1..Len(tokens) |->
        [text |-> tokens[k].text, position |-> tokens[k].position,
         isPunctuation |-> tokens[k].isPunctuation,
         entity |-> NoValue, entityScore |-> NoValue]]

\* entity.word.replace(/^##/, '').trim()
entityWord(word) ==
    Trim(IF StartsWithAt(word, <<"#", "#">>, 1)
         THEN SubSeq(word, 3, Len(word)) ELSE word)

\* if (entity.score < threshold) continue, left out
PassesFloor_NoFloor(entity) == entity.score >= 0

\* if (entity.score < threshold) continue
PassesFloor(entity) == ~(entity.score < ENTITY_CONFIDENCE)

\* the inner loop of applyNER for one accepted entity
MarkTokens(annotated, entity) ==
    [k \in 1..Len(annotated) |->
        IF /\ ~annotated[k].isPunctuation
           /\ toLowerCase(annotated[k].text)
                = toLowerCase(entityWord(entity.word))
        THEN [annotated[k] EXCEPT !.entity = entity.label,
                                  !.entityScore = entity.score]
        ELSE annotated[k]]

\* the outer loop; an accepted entity without a word makes
\* entity.word.replace throw, and the catch block returns the tokens as
\* they were passed in
RECURSIVE ApplyEntities(_, _, _, _)
ApplyEntities(tokens, annotated, results, j) ==
    IF j > Len(results) THEN annotated
    ELSE IF ~PassesFloor(results[j])
         THEN ApplyEntities(tokens, annotated, results, j + 1)
    ELSE IF ~results[j].hasWord THEN tokens
    ELSE ApplyEntities(tokens, MarkTokens(annotated, results[j]), results,
                       j + 1)

applyNER(tokens, results) == ApplyEntities(tokens, tokens, results, 1)

NerMaxTokens == 2
NerMaxEntities == 2

NerTokenTexts == { <<"B", "o">>, <<"b">>, <<".">> }

NerEntityWords ==
    { <<"b", "o">>, <<"#", "#", "b", "o">>, <<" ", "B", "O">>, <<"o">>,
      <<".">> }

\* the entities the collaborator returns; one without a word has hasWord
\* FALSE
NerEntities ==
    [word : NerEntityWords, hasWord : {TRUE}, score : {74, 75},
     label : {"LOC"}]
    \cup [word : {<<>>}, hasWord : {FALSE}, score : {74, 75}, label : {"LOC"}]

NerInputs ==
    [ tokens : { TokensOf(t) :
                    t \in UNION { [1..n -> NerTokenTexts] : n \in 0..NerMaxTokens } },
      results : UNION { [1..n -> NerEntities] : n \in 0..NerMaxEntities } ]

InitNER ==
    /\ input \in NerInputs
    /\ fn = "none"
    /\ output = NoValue
    /\ OrchIdle

CallApplyNER ==
    /\ fn = "none"
    /\ output' = applyNER(WithoutEntity(input.tokens), input.results)
    /\ fn' = "applyNER"
    /\ UNCHANGED input
    /\ UNCHANGED orchVars

NextNER == CallApplyNER

SpecNER == InitNER /\ [][NextNER]_vars

\* the tokens of the result that carry an entity annotation
AnnotatedTokens == {k \in 1..Len(output) : output[k].entity # NoValue}

\* C14 as stated: a token carries an entity annotation only if it is no
\* punctuation and some returned entity has a score of at least 0.75 and a
\* word that, lowercased, equals the lowercased text of the token.
C14_AcceptsOnlyEqualSurfaceForm ==
    fn = "applyNER" =>
        \A k \in AnnotatedTokens :
            /\ ~output[k].isPunctuation
            /\ \E j \in 1..Len(input.results) :
                  /\ input.results[j].score >= ENTITY_CONFIDENCE
                  /\ input.results[j].hasWord
                  /\ toLowerCase(input.results[j].word)
                       = toLowerCase(output[k].text)

\* C14, amended: a token carries an entity annotation only if it is no
\* punctuation and some returned entity has a score of at least 0.75 and a
\* word that equals the text of the token once a leading "##" and the
\* surrounding whitespace are removed from the word and both are lowercased.
C14_AcceptsOnlyStrippedSurfaceForm ==
    fn = "applyNER" =>
        \A k \in AnnotatedTokens :
            /\ ~output[k].isPunctuation
            /\ \E j \in 1..Len(input.results) :
                  /\ input.results[j].score >= ENTITY_CONFIDENCE
                  /\ input.results[j].hasWord
                  /\ toLowerCase(entityWord(input.results[j].word))
                       = toLowerCase(output[k].text)

\* an entity at the floor annotates the word it names, while an entity
\* below the floor with the same word, an entity naming a part of the word
\* and an entity naming the punctuation mark leave their tokens alone
C14_Witness ==
    /\ fn = "applyNER"
    /\ Len(output) = 2
    /\ output[1].text = <<"B", "o">> /\ output[1].entity = "LOC"
    /\ output[2].text = <<".">> /\ output[2].entity = NoValue
    /\ input.results = << [word |-> <<"b", "o">>, hasWord |-> TRUE, score |-> 75,
                           label |-> "LOC"],
                          [word |-> <<".">>, hasWord |-> TRUE, score |-> 75,
                           label |-> "LOC"] >>

-----------------------------------------------------------------------------
(* Errors and unavailability of the sentiment collaborator                 *)

\* C15: a call of the sentiment collaborator that rejects (for the whole
\* text, for the batch of sentences or for the batch of words) does not make
\* analyze throw: the call still returns a report.
C15_SentimentErrorsContained ==
    \A c \in Calls : thrown[c] # AnalysisFailed(ModelError)

\* C16: a sentiment model that is not loaded when its calls would be made,
\* also when it is unloaded while analyze is suspended at an earlier await,
\* does not make analyze throw: the call completes with a report.
C16_UnavailabilityNeverAborts ==
    \A c \in Calls :
        thrown[c] # AnalysisFailed("Sentiment Model nicht geladen")

\* C17: in every report that analyze has returned, a null sentiment goes
\* with modelsUsed.sentiment false, null semantics go with
\* modelsUsed.embeddings false, and modelsUsed.pos is true only if getModel
\* gives a pipeline for POS.
C17_DegradedReportSaysSo ==
    (\E c \in Calls : pc[c] = "returned") =>
        /\ ~currentAnalysis.sentiment => ~currentAnalysis.modelsUsed.sentiment
        /\ ~currentAnalysis.semantics => ~currentAnalysis.modelsUsed.embeddings
        /\ currentAnalysis.modelsUsed.pos => "POS" \notin RuleBasedKeys

-----------------------------------------------------------------------------
(* Specification SpecCache: the analysis cache over many calls of analyze  *)
(* that run to completion; input is the list of the texts analysed so far  *)

CacheMaxCalls == 12
CacheMaxRestores == 2

\* valid texts with pairwise different hashes: "aaaaaaaaaa", "aaaaaaaaab", ...
CacheText(n) == Repeat("a", 9) \o <<LowerSeq[n]>>

CacheTexts == { CacheText(n) : n \in 1..CacheMaxCalls }

AnalysedTexts == { input[n] : n \in 1..Len(input) }

InitCache ==
    /\ input = <<>>
    /\ fn = "none"
    /\ output = NoValue
    /\ OrchIdle

\* analyze(text, {enabledModules: ['sentiment', 'semantics']}) with no model
\* loaded: no stage awaits, the call runs from validation to its return and
\* stores the report. A text is one analysed before or the first of
\* CacheTexts not analysed yet.
AnalyzeToCompletion(n) ==
    LET text == CacheText(n)
        validation == validateText(text)
        mods == {"sentiment", "semantics"}
        step == StepTokens(mods, models, <<5>>)
    IN  /\ Len(input) < CacheMaxCalls
        /\ n <= Cardinality(AnalysedTexts) + 1
        /\ text \in AnalysedTexts
               => Len(input) - Cardinality(AnalysedTexts) < CacheMaxRestores
        /\ validation.valid
        /\ step.pc = "finish"
        /\ Arrive(1, validation.text, step, <<"prepareForModel">> \o step.calls)
        /\ input' = Append(input, text)
        /\ callText' = [callText EXCEPT ![1] = text]
        /\ callModules' = [callModules EXCEPT ![1] = mods]
        /\ thrown' = [thrown EXCEPT ![1] = NoValue]
        /\ started' = started + 1
        /\ callNo' = [callNo EXCEPT ![1] = started + 1]
        /\ UNCHANGED <<fn, output, models, loaderOps>>
        /\ UNCHANGED sideVars

NextCache == \E n \in 1..CacheMaxCalls : AnalyzeToCompletion(n)

SpecCache == InitCache /\ [][NextCache]_vars

CacheKeys(cache) == { cache[n].key : n \in 1..Len(cache) }

\* the number of the last call that stored an analysis under the key
LastStore(history, key) ==
    CHOOSE n \in 1..Len(history) :
        /\ hashText(history[n]) = key
        /\ \A m \in (n + 1)..Len(history) : hashText(history[m]) # key

\* C18: after every call of analyze the cache holds at most 10 entries and
\* the entry of the text just analysed; a call drops at most one entry, and
\* the entry it drops was last stored before every entry that stays.
C18_OldestStoreEvicted ==
    [][/\ Len(analysisCache') <= CACHE_LIMIT
       /\ hashText(input'[Len(input')]) \in CacheKeys(analysisCache')
       /\ Cardinality(CacheKeys(analysisCache) \ CacheKeys(analysisCache')) <= 1
       /\ \A gone \in CacheKeys(analysisCache) \ CacheKeys(analysisCache') :
             \A kept \in CacheKeys(analysisCache') :
                 LastStore(input', gone) < LastStore(input', kept)]_vars

-----------------------------------------------------------------------------
(* Rule-based part-of-speech tagging                                       *)

\* GERMAN_POS_RULES of utils/constants, one set of words per list
ARTICLES ==
    {<<"d", "e", "r">>, <<"d", "i", "e">>, <<"d", "a", "s">>,
      <<"e", "i", "n">>, <<"e", "i", "n", "e">>, <<"e", "i", "n", "e", "n">>,
      <<"e", "i", "n", "e", "m">>, <<"e", "i", "n", "e", "s">>,
      <<"d", "e", "n">>, <<"d", "e", "m">>, <<"d", "e", "s">> }

PRONOUNS ==
    {<<"i", "c", "h">>, <<"d", "u">>, <<"e", "r">>, <<"s", "i", "e">>,
      <<"e", "s">>, <<"w", "i", "r">>, <<"i", "h", "r">>,
      <<"m", "i", "c", "h">>, <<"d", "i", "c", "h">>, <<"s", "i", "c", "h">>,
      <<"m", "i", "r">>, <<"d", "i", "r">>, <<"i", "h", "m">>,
      <<"i", "h", "r">>, <<"u", "n", "s">>, <<"e", "u", "c", "h">>,
      <<"i", "h", "n", "e", "n">> }

POSSESSIVE ==
    {<<"m", "e", "i", "n">>, <<"d", "e", "i", "n">>, <<"s", "e", "i", "n">>,
      <<"i", "h", "r">>, <<"u", "n", "s", "e", "r">>, <<"e", "u", "e", "r">>,
      <<"m", "e", "i", "n", "e">>, <<"d", "e", "i", "n", "e">>,
      <<"s", "e", "i", "n", "e">>, <<"i", "h", "r", "e">>,
      <<"u", "n", "s", "e", "r", "e">>, <<"e", "u", "r", "e">> }

PREPOSITIONS ==
    {<<"i", "n">>, <<"a", "n">>, <<"a", "u", "f">>, <<"v", "o", "n">>,
      <<"v", "o", "m">>, <<"z", "u">>, <<"z", "u", "m">>, <<"z", "u", "r">>,
      <<"m", "i", "t">>, <<"b", "e", "i">>, <<"n", "a", "c", "h">>,
      <<"v", "o", "r">>, <<"U+00FC", "b", "e", "r">>,
      <<"u", "n", "t", "e", "r">>, <<"d", "u", "r", "c", "h">>,
      <<"f", "U+00FC", "r">>, <<"g", "e", "g", "e", "n">>, <<"u", "m">>,
      <<"h", "i", "n", "t", "e", "r">>,
      <<"z", "w", "i", "s", "c", "h", "e", "n">>, <<"a", "u", "s">> }

CONJUNCTIONS ==
    {<<"u", "n", "d">>, <<"o", "d", "e", "r">>, <<"a", "b", "e", "r">>,
      <<"d", "e", "n", "n">>, <<"s", "o", "n", "d", "e", "r", "n">>,
      <<"d", "o", "c", "h">>, <<"j", "e", "d", "o", "c", "h">> }

SUBJUNCTIONS ==
    {<<"w", "e", "i", "l">>, <<"d", "a", "s", "s">>, <<"w", "e", "n", "n">>,
      <<"a", "l", "s">>, <<"o", "b">>, <<"o", "b", "w", "o", "h", "l">>,
      <<"w", "U+00E4", "h", "r", "e", "n", "d">>,
      <<"b", "e", "v", "o", "r">>, <<"n", "a", "c", "h", "d", "e", "m">>,
      <<"d", "a", "m", "i", "t">>, <<"s", "o", "d", "a", "s", "s">> }

AUXILIARIES ==
    {<<"s", "e", "i", "n">>, <<"h", "a", "b", "e", "n">>,
      <<"w", "e", "r", "d", "e", "n">>, <<"i", "s", "t">>, <<"w", "a", "r">>,
      <<"w", "i", "r", "d">>, <<"w", "u", "r", "d", "e">>, <<"h", "a", "t">>,
      <<"h", "a", "t", "t", "e">>, <<"b", "i", "n">>, <<"b", "i", "s", "t">>,
      <<"s", "i", "n", "d">>, <<"w", "a", "r", "e", "n">>,
      <<"w", "i", "r", "s", "t">>, <<"w", "e", "r", "d", "e", "n">> }

MODALS ==
    {<<"k", "U+00F6", "n", "n", "e", "n">>,
      <<"m", "U+00FC", "s", "s", "e", "n">>,
      <<"d", "U+00FC", "r", "f", "e", "n">>,
      <<"s", "o", "l", "l", "e", "n">>, <<"w", "o", "l", "l", "e", "n">>,
      <<"m", "U+00F6", "g", "e", "n">>, <<"k", "a", "n", "n">>,
      <<"m", "u", "s", "s">>, <<"d", "a", "r", "f">>, <<"s", "o", "l", "l">>,
      <<"w", "i", "l", "l">>, <<"m", "a", "g">> }

PARTICLES ==
    {<<"z", "u">>, <<"n", "i", "c", "h", "t">>, <<"d", "o", "c", "h">>,
      <<"s", "c", "h", "o", "n">>, <<"n", "o", "c", "h">>, <<"n", "u", "r">>,
      <<"a", "u", "c", "h">>, <<"e", "t", "w", "a">>, <<"w", "o", "h", "l">>,
      <<"j", "a">>, <<"n", "e", "i", "n">> }

ADVERBS ==
    {<<"s", "e", "h", "r">>, <<"s", "o">>, <<"w", "i", "e">>,
      <<"a", "l", "s">>, <<"h", "i", "e", "r">>, <<"d", "a">>,
      <<"d", "o", "r", "t">>, <<"h", "e", "u", "t", "e">>,
      <<"g", "e", "s", "t", "e", "r", "n">>,
      <<"m", "o", "r", "g", "e", "n">>, <<"j", "e", "t", "z", "t">>,
      <<"i", "m", "m", "e", "r">>, <<"n", "i", "e">>, <<"o", "f", "t">>,
      <<"m", "a", "n", "c", "h", "m", "a", "l">>, <<"g", "a", "n", "z">>,
      <<"v", "U+00F6", "l", "l", "i", "g">>, <<"g", "e", "r", "n">>,
      <<"g", "e", "r", "n", "e">>, <<"s", "c", "h", "n", "e", "l", "l">>,
      <<"l", "a", "n", "g", "s", "a", "m">> }

GERMAN_POS_RULES ==
    [ARTICLES |-> ARTICLES, PRONOUNS |-> PRONOUNS, POSSESSIVE |-> POSSESSIVE,
     PREPOSITIONS |-> PREPOSITIONS, CONJUNCTIONS |-> CONJUNCTIONS,
     SUBJUNCTIONS |-> SUBJUNCTIONS, AUXILIARIES |-> AUXILIARIES,
     MODALS |-> MODALS, PARTICLES |-> PARTICLES, ADVERBS |-> ADVERBS]

\* the else-if chain with particles tested before prepositions
RuleChain_ParticlesFirst ==
    << [list |-> "ARTICLES", posTag |-> "DET", posScore |-> 95],
       [list |-> "PRONOUNS", posTag |-> "PRON", posScore |-> 95],
       [list |-> "POSSESSIVE", posTag |-> "DET", posScore |-> 90],
       [list |-> "PARTICLES", posTag |-> "PART", posScore |-> 90],
       [list |-> "PREPOSITIONS", posTag |-> "ADP", posScore |-> 95],
       [list |-> "CONJUNCTIONS", posTag |-> "CCONJ", posScore |-> 95],
       [list |-> "SUBJUNCTIONS", posTag |-> "SCONJ", posScore |-> 95],
       [list |-> "AUXILIARIES", posTag |-> "AUX", posScore |-> 90],
       [list |-> "MODALS", posTag |-> "AUX", posScore |-> 90],
       [list |-> "ADVERBS", posTag |-> "ADV", posScore |-> 85] >>

\* the else-if chain of applyRuleBasedPOS in its order, with the tag and
\* the score (in hundredths) of each branch
RuleChain ==
    << [list |-> "ARTICLES", posTag |-> "DET", posScore |-> 95],
       [list |-> "PRONOUNS", posTag |-> "PRON", posScore |-> 95],
       [list |-> "POSSESSIVE", posTag |-> "DET", posScore |-> 90],
       [list |-> "PREPOSITIONS", posTag |-> "ADP", posScore |-> 95],
       [list |-> "CONJUNCTIONS", posTag |-> "CCONJ", posScore |-> 95],
       [list |-> "SUBJUNCTIONS", posTag |-> "SCONJ", posScore |-> 95],
       [list |-> "AUXILIARIES", posTag |-> "AUX", posScore |-> 90],
       [list |-> "MODALS", posTag |-> "AUX", posScore |-> 90],
       [list |-> "PARTICLES", posTag |-> "PART", posScore |-> 90],
       [list |-> "ADVERBS", posTag |-> "ADV", posScore |-> 85] >>

\* the condition of one branch: includes(wordLower), but for the
\* possessives some(p => wordLower.startsWith(p))
BranchTaken(list, wordLower) ==
    IF list = "POSSESSIVE"
    THEN \E p \in POSSESSIVE : StartsWithAt(wordLower, p, 1)
    ELSE wordLower \in GERMAN_POS_RULES[list]

\* the first branch of the chain whose condition holds, 0 for the final else
FirstBranch(wordLower) ==
    IF \E k \in 1..Len(RuleChain) : BranchTaken(RuleChain[k].list, wordLower)
    THEN CHOOSE k \in 1..Len(RuleChain) :
            /\ BranchTaken(RuleChain[k].list, wordLower)
            /\ \A j \in 1..(k - 1) : ~BranchTaken(RuleChain[j].list, wordLower)
    ELSE 0

\* s.endsWith(suffix)
EndsWith(s, suffix) ==
    Len(suffix) <= Len(s) /\ SubSeq(s, Len(s) - Len(suffix) + 1, Len(s)) = suffix

\* /^\p{Lu}/u
StartsUpperCase(word) ==
    word # <<>> /\ \E u \in 1..Len(UpperSeq) : UpperSeq[u] = word[1]

\* /(?:en|st|t)$/i
VerbSuffix(word) ==
    \E suffix \in { <<"e", "n">>, <<"s", "t">>, <<"t">> } :
        EndsWith(toLowerCase(word), suffix)

\* /(?:lich|ig|isch|bar|sam|haft)$/i
AdjectiveSuffix(word) ==
    \E suffix \in { <<"l", "i", "c", "h">>, <<"i", "g">>, <<"i", "s", "c", "h">>,
                    <<"b", "a", "r">>, <<"s", "a", "m">>, <<"h", "a", "f", "t">> } :
        EndsWith(toLowerCase(word), suffix)

\* /\d/
ContainsDigit(word) == \E k \in 1..Len(word) : word[k] \in Digits

\* branch 11, the heuristics in their order; the default is X with 0.8
Heuristics(word) ==
    IF StartsUpperCase(word) THEN [posTag |-> "NOUN", posScore |-> 70]
    ELSE IF VerbSuffix(word) THEN [posTag |-> "VERB", posScore |-> 60]
    ELSE IF AdjectiveSuffix(word) THEN [posTag |-> "ADJ", posScore |-> 65]
    ELSE IF ContainsDigit(word) THEN [posTag |-> "NUM", posScore |-> 90]
    ELSE [posTag |-> "X", posScore |-> 80]

\* {...token, more}: the fields of more, then those of token not in more
Spread(token, more) ==
    [f \in DOMAIN token \cup DOMAIN more |->
        IF f \in DOMAIN more THEN more[f] ELSE token[f]]

\* applyRuleBasedPOS for one token; branch is the number of the branch of
\* the chain that decided (0 for the heuristics, -1 for punctuation)
tagToken(token) ==
    IF token.isPunctuation
    THEN Spread(token, [posTag |-> "PUNCT", posScore |-> 100, branch |-> -1])
    ELSE LET branch == FirstBranch(toLowerCase(token.text))
             tagged == IF branch > 0
                       THEN [posTag |-> RuleChain[branch].posTag,
                             posScore |-> RuleChain[branch].posScore]
                       ELSE Heuristics(token.text)
         IN  Spread(token, [posTag |-> tagged.posTag,
                            posScore |-> tagged.posScore,
                            branch |-> branch])

applyRuleBasedPOS(tokens) == [k \in 1..Len(tokens) |-> tagToken(tokens[k])]

PosMaxTokens == 1

\* every word of the lists, some of them capitalised, and words that are
\* in no list
PosWords ==
    UNION { GERMAN_POS_RULES[l] : l \in DOMAIN GERMAN_POS_RULES }
    \cup
    {<<"Z", "u">>, <<"A", "L", "S">>, <<"I", "h", "r">>,
      <<"D", "o", "c", "h">>, <<"H", "a", "u", "s">>,
      <<"G", "a", "r", "t", "e", "n">>, <<"g", "e", "h", "t">>,
      <<"l", "a", "u", "f", "e", "n">>, <<"R", "e", "s", "t">>,
      <<"f", "r", "e", "u", "n", "d", "l", "i", "c", "h">>,
      <<"s", "o", "n", "n", "i", "g">>, <<"b", "l", "a", "u">>,
      <<"M", "e", "i", "n", "u", "n", "g">>,
      <<"m", "e", "i", "n", "e", "n">>, <<"s", "e", "i", "t">>, <<"x", "1">>,
      <<"L", "e", "b", "h", "a", "f", "t">>, <<".">> }

PosInputs ==
    { TokensOf(t) : t \in UNION { [1..n -> PosWords] : n \in 0..PosMaxTokens } }

InitPOS ==
    /\ input \in PosInputs
    /\ fn = "none"
    /\ output = NoValue
    /\ OrchIdle

CallApplyRuleBasedPOS ==
    /\ fn = "none"
    /\ output' = applyRuleBasedPOS(input)
    /\ fn' = "applyRuleBasedPOS"
    /\ UNCHANGED input
    /\ UNCHANGED orchVars

NextPOS == CallApplyRuleBasedPOS

SpecPOS == InitPOS /\ [][NextPOS]_vars

\* the closed lists in the order of the claim, with the tag of each
ClosedLists ==
    << <<ARTICLES, "DET">>, <<PRONOUNS, "PRON">>, <<POSSESSIVE, "DET">>,
       <<PREPOSITIONS, "ADP">>, <<CONJUNCTIONS, "CCONJ">>,
       <<SUBJUNCTIONS, "SCONJ">>, <<AUXILIARIES, "AUX">>, <<MODALS, "AUX">>,
       <<PARTICLES, "PART">>, <<ADVERBS, "ADV">> >>

ListsContaining(wordLower) ==
    { k \in 1..Len(ClosedLists) : wordLower \in ClosedLists[k][1] }

\* C20: a word token whose lowercased text is in one of the closed lists
\* gets the tag of the first such list in the order determiners, pronouns,
\* possessives, prepositions, coordinating conjunctions, subordinating
\* conjunctions, auxiliaries, modals, particles, adverbs; a word reaches the
\* heuristics only if it is in none of the lists, and there a capitalised
\* word is a NOUN whatever its suffix.
C20_FirstListWins ==
    fn = "applyRuleBasedPOS" =>
        \A k \in 1..Len(output) :
            LET word == output[k].text
                lists == ListsContaining(toLowerCase(word))
            IN  ~output[k].isPunctuation =>
                  /\ lists # {} =>
                        \E first \in lists :
                            /\ \A other \in lists : first <= other
                            /\ output[k].posTag = ClosedLists[first][2]
                            /\ output[k].branch = first
                  /\ output[k].branch = 0 => lists = {}
                  /\ (output[k].branch = 0 /\ StartsUpperCase(word))
                        => output[k].posTag = "NOUN"

\* "zu" is a preposition and a particle and is tagged as the former
C20_Witness ==
    /\ fn = "applyRuleBasedPOS"
    /\ Len(output) = 1
    /\ output[1].text = <<"z", "u">>
    /\ output[1].text \in PREPOSITIONS \cap PARTICLES
    /\ output[1].posTag = "ADP"

-----------------------------------------------------------------------------
(* Token annotation: analyzeTokens and analyzeWordSentiment                *)

\* the annotation fields analyzeTokens starts with
InitialAnnotations(tokens) ==
    [k \in 1..Len(tokens) |->
        Spread(tokens[k], [entity |-> NoValue, entityType |-> NoValue,
                           entityScore |-> NoValue, posTag |-> NoValue,
                           posScore |-> NoValue, morphology |-> NoValue,
                           lemma |-> NoValue])]

\* applyGermanMorphology; of the morphology only the syllable count is kept
applyGermanMorphology(tokens) ==
    [k \in 1..Len(tokens) |->
        IF tokens[k].isPunctuation \/ tokens[k].posTag = NoValue
        THEN tokens[k]
        ELSE Spread(tokens[k],
                    [morphology |-> estimateSyllables(tokens[k].text)])]

\* enrichTokensWithDerivedFeatures; of the derived features only
\* wordClass.type is kept
enrichTokensWithDerivedFeatures(tokens) ==
    [k \in 1..Len(tokens) |->
        IF tokens[k].isPunctuation THEN tokens[k]
        ELSE Spread(tokens[k],
                    [wordClass |->
                        IF tokens[k].posTag \in {"NOUN", "VERB", "ADJ", "ADV"}
                        THEN "content"
                        ELSE IF tokens[k].posTag \in
                                {"DET", "ADP", "CCONJ", "SCONJ", "PRON", "AUX",
                                 "PART"}
                        THEN "function" ELSE "other"])]

\* analyzeTokens(text, tokens): nerModel says whether getModel('NER') gives a
\* pipeline and results is what that pipeline returns; getModel('POS') is
\* null, so the tags come from the rules; failed says that the try block
\* threw, in which case the catch block answers
analyzeTokens(tokens, nerModel, results, failed) ==
    IF failed
    THEN applyRuleBasedPOS(
             [k \in 1..Len(tokens) |->
                 Spread(tokens[k], [entity |-> NoValue, entityType |-> NoValue,
                                    posTag |-> NoValue, morphology |-> NoValue,
                                    error |-> "message"])])
    ELSE LET annotated == InitialAnnotations(tokens)
             entities == IF nerModel THEN applyNER(annotated, results)
                         ELSE annotated
         IN  enrichTokensWithDerivedFeatures(
                 applyGermanMorphology(applyRuleBasedPOS(entities)))

\* the word tokens with the sentiment the model gave for each
wordSentiments(tokens) ==
    LET wordTokens == SelectSeq(tokens, LAMBDA t : ~t.isPunctuation)
    IN  [j \in 1..Len(wordTokens) |->
            Spread(wordTokens[j], [sentiment |-> "neutral"])]

\* the result is the list of the words alone
allTokens_WordsOnly(tokens, sentiments) == sentiments

\* tokens.map: punctuation without sentiment, a word as the first entry of
\* wordSentiments with its position, or without sentiment if there is none
allTokens(tokens, sentiments) ==
    [k \in 1..Len(tokens) |->
        IF tokens[k].isPunctuation
        THEN Spread(tokens[k], [sentiment |-> NoValue])
        ELSE IF \E j \in 1..Len(sentiments) :
                    sentiments[j].position = tokens[k].position
        THEN sentiments[CHOOSE j \in 1..Len(sentiments) :
                 /\ sentiments[j].position = tokens[k].position
                 /\ \A i \in 1..(j - 1) :
                       sentiments[i].position # tokens[k].position]
        ELSE Spread(tokens[k], [sentiment |-> NoValue])]

\* analyzeWordSentiment(text, tokens): without a model every token gets a
\* null sentiment; a rejected batch call is rethrown and nothing is returned
analyzeWordSentiment(tokens, model, fulfilled) ==
    IF ~model
    THEN [threw |-> FALSE,
          tokens |-> [k \in 1..Len(tokens) |->
                         Spread(tokens[k], [sentiment |-> NoValue])]]
    ELSE IF ~fulfilled THEN [threw |-> TRUE, tokens |-> <<>>]
    ELSE [threw |-> FALSE, tokens |-> allTokens(tokens, wordSentiments(tokens))]

AnnotMaxPieces == 3

AnnotPieces == { <<"B", "o">>, <<" ">>, <<".">>, <<"z", "u">>, <<"b">> }

AnnotTexts ==
    { Concat(p) : p \in UNION { [1..n -> AnnotPieces] : n \in 0..AnnotMaxPieces } }

AnnotEntities ==
    { <<>>,
      << [word |-> <<"b", "o">>, hasWord |-> TRUE, score |-> 75, label |-> "LOC"] >>,
      << [word |-> <<>>, hasWord |-> FALSE, score |-> 75, label |-> "LOC"] >> }

AnnotInputs ==
    [ tokens : { tokenizeText(t) : t \in AnnotTexts },
      model : BOOLEAN,
      results : AnnotEntities,
      failed : BOOLEAN ]

InitAnnotate ==
    /\ input \in AnnotInputs
    /\ fn = "none"
    /\ output = NoValue
    /\ OrchIdle

CallAnalyzeTokens ==
    /\ fn = "none"
    /\ output' = [threw |-> FALSE,
                  tokens |-> analyzeTokens(input.tokens, input.model,
                                           input.results, input.failed)]
    /\ fn' = "analyzeTokens"
    /\ UNCHANGED input
    /\ UNCHANGED orchVars

CallAnalyzeWordSentiment ==
    /\ fn = "none"
    /\ output' = analyzeWordSentiment(input.tokens, input.model, ~input.failed)
    /\ fn' = "analyzeWordSentiment"
    /\ UNCHANGED input
    /\ UNCHANGED orchVars

NextAnnotate == CallAnalyzeTokens \/ CallAnalyzeWordSentiment

SpecAnnotate == InitAnnotate /\ [][NextAnnotate]_vars

\* C19: the array that analyzeTokens or analyzeWordSentiment returns has
\* the length of the token array it was given, and at every index the
\* text, the offset (index), the position and isPunctuation of the token
\* given; this holds with and without a model and when analyzeTokens
\* answers from its catch block.
C19_TokenIdentityKept ==
    (fn \in {"analyzeTokens", "analyzeWordSentiment"} /\ ~output.threw) =>
        /\ Len(output.tokens) = Len(input.tokens)
        /\ \A k \in 1..Len(input.tokens) :
              /\ output.tokens[k].text = input.tokens[k].text
              /\ output.tokens[k].index = input.tokens[k].index
              /\ output.tokens[k].position = input.tokens[k].position
              /\ output.tokens[k].isPunctuation = input.tokens[k].isPunctuation

\* analyzeWordSentiment with a model on a word, a punctuation mark and
\* another word: the words carry a sentiment, the mark between them none
C19_Witness ==
    /\ fn = "analyzeWordSentiment"
    /\ ~output.threw
    /\ Len(output.tokens) = 3
    /\ output.tokens[1].sentiment = "neutral"
    /\ output.tokens[2].isPunctuation
    /\ output.tokens[2].sentiment = NoValue
    /\ output.tokens[3].sentiment = "neutral"

\* the scores (in hundredths) of every outcome of the tagger other than the
\* default: the ten list branches and the heuristics NOUN, VERB, ADJ, NUM
TaggedScores ==
    { RuleChain[k].posScore : k \in 1..Len(RuleChain) } \cup {70, 60, 65, 90}

\* C21: a word token that applyRuleBasedPOS tags X has a posScore strictly
\* lower than the posScore of every list match and of every heuristic.
C21_DefaultTagHasLowestScore ==
    fn = "applyRuleBasedPOS" =>
        \A k \in 1..Len(output) :
            (~output[k].isPunctuation /\ output[k].posTag = "X")
                => \A score \in TaggedScores : output[k].posScore < score

\* the words of the input and the graph the claim describes: two different
\* words are joined when the cosine similarity of their embeddings is above
\* 0.5
FieldWords == { input[i].word : i \in 1..Len(input) }

Joined(w1, w2) ==
    /\ w1 # w2
    /\ \E i, j \in 1..Len(input) :
          /\ input[i].word = w1 /\ input[j].word = w2
          /\ SimilarityAboveMedium(input[i].embedding, input[j].embedding)

\* the connected component of a set of words
RECURSIVE Component(_)
Component(ws) ==
    LET more == ws \cup { w \in FieldWords : \E v \in ws : Joined(v, w) }
    IN  IF more = ws THEN ws ELSE Component(more)

NonTrivialComponents ==
    { c \in { Component({w}) : w \in FieldWords } : Cardinality(c) >= 2 }

\* C22: the fields returned are the connected components of two words or
\* more of that graph, each once, largest first, at most 10 of them, and
\* none is left out while the list is shorter than 10.
C22_FieldsAreComponents ==
    fn = "identifySemanticFields" =>
        /\ Len(output) <= 10
        /\ \A n \in 1..Len(output) : output[n].words \in NonTrivialComponents
        /\ \A m, n \in 1..Len(output) :
              /\ m < n => output[m].size >= output[n].size
              /\ m # n => output[m].words # output[n].words
        /\ Len(output) < 10 =>
              NonTrivialComponents = { output[n].words : n \in 1..Len(output) }

\* C23: the pattern is labelled paired rhyme exactly when it is AABB, cross
\* rhyme exactly when it is ABAB, enclosed rhyme exactly when it is ABBA,
\* and free scheme in every other case.
C23_OnlyFourLetterSchemesNamed ==
    (fn = "analyzeRhymeScheme" /\ Len(input) >= 2) =>
        /\ output.description = RHYME_SCHEMES.AABB
              <=> output.pattern = <<"A", "A", "B", "B">>
        /\ output.description = RHYME_SCHEMES.ABAB
              <=> output.pattern = <<"A", "B", "A", "B">>
        /\ output.description = RHYME_SCHEMES.ABBA
              <=> output.pattern = <<"A", "B", "B", "A">>
        /\ output.pattern \notin { <<"A", "A", "B", "B">>, <<"A", "B", "A", "B">>,
                                   <<"A", "B", "B", "A">> }
              => output.description = RHYME_SCHEMES.FREE

\* the Wiener formula 0.1935*MS + 0.1672*SL + 0.1297*IW - 0.0327*ES - 0.875
\* on the word counts of a report, MS, IW and ES taken as percentages of the
\* words, as the fraction WienerFormulaNum / WienerFormulaDen
WienerFormulaDen == 125000 * Max(output.wordCount, 1)

WienerFormulaNum ==
    LET wordDen == Max(output.wordCount, 1)
    IN  2418750 * output.multiSyllableWords + 209 * output.sl * wordDen
        + 1621250 * output.longWords - 408750 * output.monoSyllableWords
        - 109375 * wordDen

\* C24: the wienerIndex either readability function reports is the value
\* of the Wiener formula (to two decimals), also when that value is below 0
\* or above 20.
C24_WienerIndexIsRawValue ==
    fn \in {"calculateReadabilityMetrics", "calculateReadability"}
        => output.wienerIndex = toFixed2Signed(WienerFormulaNum, WienerFormulaDen)

-----------------------------------------------------------------------------
(* Word embeddings: generateWordEmbeddings, one call of the model per word *)

\* ANALYSIS_CONFIG.PROCESSING.BATCH_SIZE
BATCH_SIZE == 16

\* ANALYSIS_CONFIG.TEXT.MIN_WORD_LENGTH
MIN_WORD_LENGTH == 2

\* the texts on which the embedding model may throw
EmbFailingTexts == { <<"e", "f">> }

\* tokens.filter(t => !t.isPunctuation && t.text.length >= MIN_WORD_LENGTH)
embeddableTokens(tokens) ==
    SelectSeq(tokens, LAMBDA t : ~t.isPunctuation /\ Len(t.text) >= MIN_WORD_LENGTH)

\* wordTokens.slice(i, i + batchSize) as the 1-based indices it covers
batchOf(run) ==
    { k \in 1..Len(run.wordTokens) :
        k > run.cursor /\ k <= run.cursor + BATCH_SIZE }

\* batchTexts.map(async (text) => ... await model(text, ...)): every call of
\* the batch is made before the first await of the loop body
startBatch(run) ==
    [run EXCEPT !.phase = "awaiting",
                !.status = [k \in 1..Len(run.wordTokens) |->
                               IF k \in batchOf(run) THEN "outstanding"
                               ELSE run.status[k]]]

\* a promise that settles as soon as one call of the batch has settled
BatchSettled_FirstSettled(run) ==
    \E k \in batchOf(run) : run.status[k] \in {"fulfilled", "rejected"}

\* Promise.all over the inner async functions, none of which rejects: it
\* settles when every call of the batch has settled
BatchSettled(run) ==
    \A k \in batchOf(run) : run.status[k] \in {"fulfilled", "rejected"}

\* the entry pushed for a word whose call returned a vector; the vector is
\* whatever the model returned for that text
embeddingEntry(token) ==
    [token |-> token, word |-> token.text,
     embedding |-> [of |-> token.text], position |-> token.position]

\* for (j = 0; j < batch.length; j++) if (batchResults[j]) embeddings.push
RECURSIVE pushBatch(_, _, _)
pushBatch(run, k, embeddings) ==
    IF k > Len(run.wordTokens) \/ k > run.cursor + BATCH_SIZE THEN embeddings
    ELSE pushBatch(run, k + 1,
             IF run.status[k] = "fulfilled"
             THEN Append(embeddings, embeddingEntry(run.wordTokens[k]))
             ELSE embeddings)

\* generateWordEmbeddings(tokens, model) up to its first await, or to its
\* return when no token is left after the filter
GenerateWordEmbeddings ==
    /\ fn = "none"
    /\ embedRun.phase = "idle"
    /\ LET wordTokens == embeddableTokens(input)
           run == [phase |-> "idle", wordTokens |-> wordTokens, cursor |-> 0,
                   status |-> [k \in 1..Len(wordTokens) |-> "notCalled"],
                   embeddings |-> <<>>]
       IN  IF Len(wordTokens) = 0
           THEN /\ embedRun' = [run EXCEPT !.phase = "returned"]
                /\ fn' = "generateWordEmbeddings"
                /\ output' = <<>>
           ELSE /\ embedRun' = startBatch(run)
                /\ UNCHANGED <<fn, output>>
    /\ UNCHANGED input
    /\ UNCHANGED analyzerVars
    /\ UNCHANGED loaderVars

\* one call of the model settles: it returns a vector, or it throws and the
\* inner catch turns that into null
ModelSettles(k, fulfilled) ==
    /\ embedRun.phase = "awaiting"
    /\ k \in 1..Len(embedRun.wordTokens)
    /\ embedRun.status[k] = "outstanding"
    /\ fulfilled \/ embedRun.wordTokens[k].text \in EmbFailingTexts
    /\ embedRun' = [embedRun EXCEPT
                       !.status[k] = IF fulfilled THEN "fulfilled" ELSE "rejected"]
    /\ UNCHANGED pureVars
    /\ UNCHANGED analyzerVars
    /\ UNCHANGED loaderVars

\* the loop body after await Promise.all: the results are pushed in batch
\* order, then the next batch is started or the list is returned
ResumeBatch ==
    /\ embedRun.phase = "awaiting"
    /\ BatchSettled(embedRun)
    /\ LET embeddings == pushBatch(embedRun, embedRun.cursor + 1,
                                   embedRun.embeddings)
           run == [embedRun EXCEPT !.embeddings = embeddings,
                                   !.cursor = embedRun.cursor + BATCH_SIZE]
       IN  IF run.cursor < Len(run.wordTokens)
           THEN /\ embedRun' = startBatch(run)
                /\ UNCHANGED <<fn, output>>
           ELSE /\ embedRun' = [run EXCEPT !.phase = "returned"]
                /\ fn' = "generateWordEmbeddings"
                /\ output' = embeddings
    /\ UNCHANGED input
    /\ UNCHANGED analyzerVars
    /\ UNCHANGED loaderVars

EmbMaxTokens == 19

\* the k-th token of the texts analysed: a comma, a one-letter word, and
\* words of two letters
EmbToken(k) ==
    [text |-> IF k = 2 THEN <<",">>
              ELSE IF k = 5 THEN <<"o">>
              ELSE IF k % 15 = 4 THEN <<"e", "f">>
              ELSE IF k % 2 = 0 THEN <<"a", "b">>
              ELSE <<"c", "d">>,
     position |-> k - 1,
     isPunctuation |-> (k = 2)]

\* lists of up to three tokens and one list that does not fit one batch
EmbInputs ==
    { [k \in 1..n |-> EmbToken(k)] : n \in (0..3) \cup {EmbMaxTokens} }

InitEmbed ==
    /\ input \in EmbInputs
    /\ fn = "none"
    /\ output = NoValue
    /\ OrchIdle

NextEmbed ==
    \/ GenerateWordEmbeddings
    \/ \E k \in 1..EmbMaxTokens, fulfilled \in BOOLEAN : ModelSettles(k, fulfilled)
    \/ ResumeBatch

SpecEmbed == InitEmbed /\ [][NextEmbed]_vars

\* the calls of the model that have been made and have not settled
Outstanding == { k \in 1..Len(embedRun.wordTokens) : embedRun.status[k] = "outstanding" }

\* the number of the chunk the k-th word belongs to
ChunkOf(k) == (k - 1) \div BATCH_SIZE

\* the words of the run whose call returned a vector, in token order
RECURSIVE FulfilledFrom(_)
FulfilledFrom(k) ==
    IF k > Len(embedRun.wordTokens) THEN <<>>
    ELSE (IF embedRun.status[k] = "fulfilled"
          THEN <<embedRun.wordTokens[k]>> ELSE <<>>) \o FulfilledFrom(k + 1)

\* C25: at most BATCH_SIZE calls of the embedding model are outstanding at
\* any moment; no call of a later chunk is made before every call of the
\* chunks before it has settled; the list returned holds exactly the words
\* whose call succeeded, in token order.
C25_ChunkedEmbeddingCalls ==
    /\ Cardinality(Outstanding) <= BATCH_SIZE
    /\ \A j, k \in 1..Len(embedRun.wordTokens) :
           (ChunkOf(j) < ChunkOf(k) /\ embedRun.status[k] # "notCalled")
               => embedRun.status[j] \in {"fulfilled", "rejected"}
    /\ fn = "generateWordEmbeddings" =>
           /\ Len(output) = Len(FulfilledFrom(1))
           /\ \A n \in 1..Len(output) :
                  /\ output[n].token = FulfilledFrom(1)[n]
                  /\ output[n].word = FulfilledFrom(1)[n].text
           /\ \A m, n \in 1..Len(output) :
                  m < n => output[m].position < output[n].position

\* a run over more words than one chunk holds has returned; a call of the
\* first chunk and a call of the second had failed
C25_Witness ==
    /\ fn = "generateWordEmbeddings"
    /\ Len(embedRun.wordTokens) > BATCH_SIZE
    /\ \E j, k \in 1..Len(embedRun.wordTokens) :
           /\ ChunkOf(j) = 0 /\ ChunkOf(k) = 1
           /\ embedRun.status[j] = "rejected" /\ embedRun.status[k] = "rejected"
    /\ Len(output) = Len(embedRun.wordTokens) - 2

\* the progress values of a complete analysis
Milestones == <<5, 20, 40, 60, 80, 95, 100>>

\* the milestone of the stage a call is suspended in
StageMilestone(at) ==
    IF at = "tokens" THEN 20
    ELSE IF at \in {"sentOverall", "sentSentences", "sentWords"} THEN 40
    ELSE IF at = "syntax" THEN 60
    ELSE 80

\* C26: a call of analyze that passed validation and returned has reported
\* exactly 5, 20, 40, 60, 80, 95, 100 in this order, whatever the modules
\* and the models; a call suspended in a stage has reported the milestone
\* of that stage last, and so its collaborators were called after it; a call
\* that failed in a stage has reported nothing after that stage's milestone.
C26_ProgressMilestones ==
    \A c \in Calls :
        /\ pc[c] = "returned" => progress[c] = Milestones
        /\ pc[c] \in {"tokens", "sentOverall", "sentSentences", "sentWords",
                      "syntax", "semantics"}
              => /\ progress[c] =
                        SubSeq(Milestones, 1, Len(progress[c]))
                 /\ progress[c][Len(progress[c])] = StageMilestone(pc[c])
        /\ (pc[c] = "threw" /\ validateText(callText[c]).valid)
              => progress[c] = <<5, 20, 40>>

\* a call with no module that has a model to run returned, and a call whose
\* sentiment stage failed is over
C26_Witness ==
    \E c, d \in Calls :
        /\ pc[c] = "returned"
        /\ callModules[c] = {"sentiment", "semantics"}
        /\ modelCalls[c] = <<"prepareForModel">>
        /\ progress[c] = Milestones
        /\ pc[d] = "threw"
        /\ thrown[d] = AnalysisFailed(ModelError)
        /\ progress[d] = <<5, 20, 40>>

\* C27: while a call of analyze has passed validation and has neither
\* returned nor thrown, isAnalyzing is true.
C27_IsAnalyzingWhileInFlight ==
    (\E c \in Calls : ~Settled(c)) => isAnalyzing

-----------------------------------------------------------------------------
(* The model loader: loadModel, unloadModel and unloadAllModels, call by   *)
(* call.  A model is named by the number of the pipeline load that         *)
(* returned it; the null of a rule-based key is 0.                         *)

\* the keys loaded here: one with a pipeline and one with name null
LoaderKeys == {"SENTIMENT", "POS"}

\* this.loadingPromises.has(modelKey), never true
isModelLoading_Never(modelKey) == FALSE

\* this.loadingPromises.has(modelKey)
isModelLoading(modelKey) == \E entry \in loadingPromises : entry[1] = modelKey

\* this.loadingPromises.get(modelKey)
loadingPromiseOf(modelKey) ==
    (CHOOSE entry \in loadingPromises : entry[1] = modelKey)[2]

\* this.models.get(modelKey)
storedModelOf(modelKey) ==
    (CHOOSE entry \in storedModels : entry[1] = modelKey)[2]

\* Map.prototype.set and Map.prototype.delete on a set of pairs
MapDelete(map, key) == { entry \in map : entry[1] # key }

MapSet(map, key, value) == MapDelete(map, key) \cup { <<key, value>> }

\* an entry of the log: the call, the pipeline load its promise waits for
\* (0 when there is none) and how the promise it returned has settled
LogEntry(op, key, pipeline, state, model) ==
    [op |-> op, key |-> key, pipeline |-> pipeline, state |-> state,
     model |-> model]

LoaderMaxOps == 5

\* loadModel(modelKey) up to its return or its await
LoadModel(modelKey) ==
    /\ Len(loaderLog) < LoaderMaxOps
    /\ IF modelKey \in models
       THEN /\ loaderLog' = Append(loaderLog,
                   LogEntry("loadModel", modelKey, 0, "resolved",
                            storedModelOf(modelKey)))
            /\ UNCHANGED <<loadingPromises, pipelines>>
       ELSE IF isModelLoading(modelKey)
       THEN /\ loaderLog' = Append(loaderLog,
                   LogEntry("loadModel", modelKey,
                            loadingPromiseOf(modelKey), "pending", -1))
            /\ UNCHANGED <<loadingPromises, pipelines>>
       ELSE /\ pipelines' = Append(pipelines,
                   [key |-> modelKey, state |-> "pending",
                    startedAt |-> Len(loaderLog) + 1])
            /\ loadingPromises' =
                   MapSet(loadingPromises, modelKey, Len(pipelines) + 1)
            /\ loaderLog' = Append(loaderLog,
                   LogEntry("loadModel", modelKey, Len(pipelines) + 1,
                            "pending", -1))
    /\ UNCHANGED <<models, storedModels>>
    /\ UNCHANGED pureVars
    /\ UNCHANGED flightVars
    /\ UNCHANGED embedRun

\* the promise of _loadModelPipeline settles and the loadModel call that
\* started it resumes: models.set and loadingPromises.delete, or the catch
\* block; the calls that were handed the same promise settle with it
PipelineSettles(p, fulfilled) ==
    /\ p \in 1..Len(pipelines)
    /\ pipelines[p].state = "pending"
    /\ fulfilled \/ pipelines[p].key \notin RuleBasedKeys
    /\ LET modelKey == pipelines[p].key
           model == IF modelKey \in RuleBasedKeys THEN 0 ELSE p
       IN  /\ pipelines' = [pipelines EXCEPT ![p].state =
                               IF fulfilled THEN "fulfilled" ELSE "rejected"]
           /\ loadingPromises' = MapDelete(loadingPromises, modelKey)
           /\ IF fulfilled
              THEN /\ storedModels' = MapSet(storedModels, modelKey, model)
                   /\ models' = models \cup {modelKey}
              ELSE UNCHANGED <<storedModels, models>>
           /\ loaderLog' =
                  [n \in 1..Len(loaderLog) |->
                      IF loaderLog[n].pipeline = p
                      THEN IF fulfilled
                           THEN [loaderLog[n] EXCEPT !.state = "resolved",
                                                     !.model = model]
                           ELSE [loaderLog[n] EXCEPT !.state = "rejected"]
                      ELSE loaderLog[n]]
    /\ UNCHANGED pureVars
    /\ UNCHANGED flightVars
    /\ UNCHANGED embedRun

\* unloadModel(modelKey)
UnloadModel(modelKey) ==
    /\ Len(loaderLog) < LoaderMaxOps
    /\ models' = models \ {modelKey}
    /\ storedModels' = MapDelete(storedModels, modelKey)
    /\ loaderLog' = Append(loaderLog,
           LogEntry("unloadModel", modelKey, 0, "returned", -1))
    /\ UNCHANGED <<loadingPromises, pipelines>>
    /\ UNCHANGED pureVars
    /\ UNCHANGED flightVars
    /\ UNCHANGED embedRun

\* unloadAllModels()
UnloadAllModels ==
    /\ Len(loaderLog) < LoaderMaxOps
    /\ models' = {}
    /\ storedModels' = {}
    /\ loadingPromises' = {}
    /\ loaderLog' = Append(loaderLog,
           LogEntry("unloadAllModels", "all", 0, "returned", -1))
    /\ UNCHANGED pipelines
    /\ UNCHANGED pureVars
    /\ UNCHANGED flightVars
    /\ UNCHANGED embedRun

InitLoader ==
    /\ input = NoValue
    /\ fn = "none"
    /\ output = NoValue
    /\ OrchIdle

NextLoader ==
    \/ \E modelKey \in LoaderKeys : LoadModel(modelKey)
    \/ \E p \in 1..LoaderMaxOps, fulfilled \in BOOLEAN : PipelineSettles(p, fulfilled)
    \/ \E modelKey \in LoaderKeys : UnloadModel(modelKey)
    \/ UnloadAllModels

SpecLoader == InitLoader /\ [][NextLoader]_vars

\* the n-th call of the log unloads modelKey
Unloads(n, modelKey) ==
    \/ loaderLog[n].op = "unloadAllModels"
    \/ loaderLog[n].op = "unloadModel" /\ loaderLog[n].key = modelKey

\* the pipeline loads of modelKey in the given states
LoadsOf(modelKey, states) ==
    { p \in 1..Len(pipelines) :
        pipelines[p].key = modelKey /\ pipelines[p].state \in states }

\* the loadModel calls for modelKey whose promise has resolved
ResolvedCalls(modelKey) ==
    { n \in 1..Len(loaderLog) :
        /\ loaderLog[n].op = "loadModel" /\ loaderLog[n].key = modelKey
        /\ loaderLog[n].state = "resolved" }

\* C28: for a key that has not been unloaded, at most one pipeline load is
\* in flight or has succeeded, every loadModel call that resolved resolved
\* to the same model, the key is in loadingPromises exactly while its load
\* is in flight, and it is in models exactly when a load has succeeded (so
\* after a failure it is in neither map).
C28_LoadDeduplicated ==
    \A modelKey \in LoaderKeys :
        (\A n \in 1..Len(loaderLog) : ~Unloads(n, modelKey)) =>
            /\ Cardinality(LoadsOf(modelKey, {"pending", "fulfilled"})) <= 1
            /\ \A m, n \in ResolvedCalls(modelKey) :
                   loaderLog[m].model = loaderLog[n].model
            /\ \A p \in LoadsOf(modelKey, {"pending"}) :
                   <<modelKey, p>> \in loadingPromises
            /\ LoadsOf(modelKey, {"pending"}) = {} => ~isModelLoading(modelKey)
            /\ isModelLoaded(modelKey) <=> LoadsOf(modelKey, {"fulfilled"}) # {}

\* no unload was called; the first load of SENTIMENT failed, a second load
\* was started and joined by another call, and a call after its success was
\* answered from models
C28_Witness ==
    /\ \A n \in 1..Len(loaderLog) : loaderLog[n].op = "loadModel"
    /\ Len(pipelines) = 2
    /\ pipelines[1] = [key |-> "SENTIMENT", state |-> "rejected", startedAt |-> 1]
    /\ pipelines[2].key = "SENTIMENT" /\ pipelines[2].state = "fulfilled"
    /\ Len(loaderLog) = 4
    /\ loaderLog[1].state = "rejected"
    /\ loaderLog[3].pipeline = 2 /\ loaderLog[3].state = "resolved"
    /\ loaderLog[4].pipeline = 0 /\ loaderLog[4].model = 2
    /\ isModelLoaded("SENTIMENT") /\ ~isModelLoading("SENTIMENT")

\* modelKey was unloaded and loadModel(modelKey) has not been called since
UnloadedLast(modelKey) ==
    \E n \in 1..Len(loaderLog) :
        /\ Unloads(n, modelKey)
        /\ \A m \in (n + 1)..Len(loaderLog) :
               ~(loaderLog[m].op = "loadModel" /\ loaderLog[m].key = modelKey)

\* p is the newest pipeline load of its key and unloadAllModels has not been
\* called since it was started
NewestLoad(p) ==
    /\ \A q \in (p + 1)..Len(pipelines) : pipelines[q].key # pipelines[p].key
    /\ \A n \in (pipelines[p].startedAt + 1)..Len(loaderLog) :
           loaderLog[n].op # "unloadAllModels"

\* C29: a key that was unloaded is not loaded as long as loadModel is not
\* called for it again, and the newest load of a key, while it is in flight,
\* keeps its entry in loadingPromises.
C29_UnloadIsFinal ==
    /\ \A modelKey \in LoaderKeys :
           UnloadedLast(modelKey) => ~isModelLoaded(modelKey)
    /\ \A p \in 1..Len(pipelines) :
           (pipelines[p].state = "pending" /\ NewestLoad(p))
               => <<pipelines[p].key, p>> \in loadingPromises

=============================================================================
